---- MODULE Spec2Model ----
(***************************************************************************)
(* Sparse multivariate polynomial arithmetic of symbolica                  *)
(* (src/poly/polynomial.rs): the ordered container, merge addition, heap   *)
(* multiplication, heap / synthetic / finite-field division.               *)
(*                                                                         *)
(* A polynomial is the record of the fields of MultivariatePolynomial:     *)
(*   coefficients : sequence of ring elements                              *)
(*   exponents    : FLAT row-major sequence, nterms * nvars entries        *)
(*   nterms, nvars, field, var_map                                         *)
(* Indices are 0-based as in the source; Seq positions are index + 1.      *)
(* steps counts the loop steps of the calls that are run step by step.     *)
(***************************************************************************)
EXTENDS Integers, Sequences, FiniteSets, Bags, TLC

VARIABLES F, debug, a, b, c, op, out, p, sums, napp, steps

vars == <<F, debug, a, b, c, op, out, p, sums, napp, steps>>

(***************************************************************************)
(* Bounds of the model.                                                    *)
(***************************************************************************)
\* degree bound of the input monomials (see the input domains)
MaxExp == 1
\* largest number of terms of an input polynomial
MaxTerms == 2
\* largest number of append calls in one construction
MaxAppends == 3

(***************************************************************************)
(* The ring layer (crate::rings, used through the Ring / EuclideanDomain / *)
(* Field traits).  "Z" integers, "Zp" the prime field of order Modulus,    *)
(* "Q" the rationals as reduced pairs <<num, den>> with den > 0.           *)
(***************************************************************************)
Modulus == 5

Abs(x) == IF x < 0 THEN -x ELSE x

RECURSIVE Gcd(_, _)
Gcd(x, y) == IF y = 0 THEN Abs(x) ELSE Gcd(Abs(y), Abs(x) % Abs(y))

QNorm(n, d) ==
    LET g == Gcd(n, d)
        s == IF d < 0 THEN -1 ELSE 1
    IN  <<s * (Abs(n) \div g) * (IF n < 0 THEN -1 ELSE 1), Abs(d) \div g>>

RZero(R) == IF R = "Q" THEN <<0, 1>> ELSE 0

ROne(R) == IF R = "Q" THEN <<1, 1>> ELSE 1

RIsZero(R, x) == IF R = "Q" THEN x[1] = 0 ELSE x = 0

RIsOne(R, x) == x = ROne(R)

RAdd(R, x, y) ==
    CASE R = "Z"  -> x + y
      [] R = "Zp" -> (x + y) % Modulus
      [] R = "Q"  -> QNorm(x[1] * y[2] + y[1] * x[2], x[2] * y[2])

RNeg(R, x) ==
    CASE R = "Z"  -> -x
      [] R = "Zp" -> (Modulus - x) % Modulus
      [] R = "Q"  -> <<-x[1], x[2]>>

RSub(R, x, y) == RAdd(R, x, RNeg(R, y))

RMul(R, x, y) ==
    CASE R = "Z"  -> x * y
      [] R = "Zp" -> (x * y) % Modulus
      [] R = "Q"  -> QNorm(x[1] * y[1], x[2] * y[2])

\* Field::inv
RInv(R, x) ==
    CASE R = "Zp" -> CHOOSE i \in 1..(Modulus - 1) : (i * x) % Modulus = 1
      [] R = "Q"  -> QNorm(x[2], x[1])

\* EuclideanDomain::quot_rem: <<quotient, remainder>>; in a field the
\* remainder is zero, in Z it is the Euclidean remainder 0 <= r < |y|.
RQuotRem(R, x, y) ==
    CASE R = "Z"  -> LET ay == Abs(y)
                         fl == x \div ay
                         q  == IF y > 0 THEN fl ELSE -fl
                     IN  <<q, x - q * y>>
      [] R = "Zp" -> <<RMul(R, x, RInv(R, y)), 0>>
      [] R = "Q"  -> <<RMul(R, x, RInv(R, y)), <<0, 1>> >>

IsField(R) == R \in {"Zp", "Q"}

(***************************************************************************)
(* Exponent rows                                                           *)
(***************************************************************************)
ZeroRow(n) == [i \in 1..n |-> 0]

\* the number of pairs of x.iter().zip(y): the shorter length
ZipLen(x, y) == IF Len(x) <= Len(y) THEN Len(x) ELSE Len(y)

\* zip(..).map(|(xe, ye)| xe - ye)
RowSub(x, y) == [i \in 1..ZipLen(x, y) |-> x[i] - y[i]]

\* zip(..).all(|(xe, ye)| xe >= ye)
RowGeqAll(x, y) == \A i \in 1..ZipLen(x, y) : x[i] >= y[i]

\* Ord on slices: lexicographic, first variable most significant.
RECURSIVE CmpFrom(_, _, _)
CmpFrom(x, y, i) ==
    IF i > Len(x) \/ i > Len(y)
    THEN IF Len(x) < Len(y) THEN -1 ELSE IF Len(x) > Len(y) THEN 1 ELSE 0
    ELSE IF x[i] < y[i] THEN -1
         ELSE IF x[i] > y[i] THEN 1
         ELSE CmpFrom(x, y, i + 1)

cmp_exponents(x, y) == CmpFrom(x, y, 1)

(***************************************************************************)
(* The container                                                           *)
(***************************************************************************)
\* MultivariatePolynomial::new
new(n, R, vm) ==
    [coefficients |-> <<>>, exponents |-> <<>>, nterms |-> 0, nvars |-> n,
     field |-> R, var_map |-> vm]

new_from(self) == new(self.nvars, self.field, self.var_map)

zero(R) == new(0, R, <<>>)

from_constant(k, n, R) ==
    IF RIsZero(R, k) THEN new(n, R, <<>>)
    ELSE [coefficients |-> <<k>>, exponents |-> ZeroRow(n), nterms |-> 1,
          nvars |-> n, field |-> R, var_map |-> <<>>]

from_monomial(k, e, R) ==
    IF RIsZero(R, k) THEN new(Len(e), R, <<>>)
    ELSE [coefficients |-> <<k>>, exponents |-> e, nterms |-> 1,
          nvars |-> Len(e), field |-> R, var_map |-> <<>>]

is_zero(self) == self.nterms = 0

is_one(self) ==
    /\ self.nterms = 1
    /\ RIsOne(self.field, self.coefficients[1])
    /\ \A i \in 1..Len(self.exponents) : self.exponents[i] = 0

is_constant(self) ==
    IF is_zero(self) THEN TRUE
    ELSE IF self.nterms >= 2 THEN FALSE
    ELSE \A i \in 1..Len(self.exponents) : self.exponents[i] = 0

\* the slice index*nvars .. (index+1)*nvars is inside the buffer
SliceOk(self, index) == (index + 1) * self.nvars <= Len(self.exponents)

exponents(self, index) ==
    SubSeq(self.exponents, index * self.nvars + 1, (index + 1) * self.nvars)

exponents_back(self, index) == exponents(self, self.nterms - index - 1)

\* faulty variant of coefficient_back: the index counts from the front
coefficient_front(self, index) == self.coefficients[index + 1]

coefficient_back(self, index) == self.coefficients[self.nterms - index]

last_exponents(self) == exponents(self, self.nterms - 1)

lcoeff(self) ==
    IF is_zero(self) THEN RZero(self.field)
    ELSE self.coefficients[Len(self.coefficients)]

Max2(x, y) == IF x >= y THEN x ELSE y

RECURSIVE SeqMax(_, _)
SeqMax(s, i) == IF i > Len(s) THEN 0 ELSE Max2(s[i], SeqMax(s, i + 1))

ldegree_max(self) == IF is_zero(self) THEN 0 ELSE SeqMax(last_exponents(self), 1)

\* Vec::push of one term
PushTerm(self, k, e) ==
    [self EXCEPT !.coefficients = Append(@, k),
                 !.exponents = @ \o e,
                 !.nterms = @ + 1]

\* Vec::insert at term position i (0-based)
InsertTerm(self, i, k, e) ==
    [self EXCEPT !.coefficients = SubSeq(@, 1, i) \o <<k>> \o SubSeq(@, i + 1, Len(@)),
                 !.exponents = SubSeq(@, 1, i * self.nvars) \o e
                               \o SubSeq(@, i * self.nvars + 1, Len(@)),
                 !.nterms = @ + 1]

\* Vec::remove of term i (0-based)
RemoveTerm(self, i) ==
    [self EXCEPT !.coefficients = SubSeq(@, 1, i) \o SubSeq(@, i + 2, Len(@)),
                 !.exponents = SubSeq(@, 1, i * self.nvars)
                               \o SubSeq(@, (i + 1) * self.nvars + 1, Len(@)),
                 !.nterms = @ - 1]

\* coefficients[i] += k, the term removed when the sum is zero
MergeTerm(self, i, k) ==
    LET s == RAdd(self.field, self.coefficients[i + 1], k)
    IN  IF RIsZero(self.field, s) THEN RemoveTerm(self, i)
        ELSE [self EXCEPT !.coefficients[i + 1] = s]

append_monomial_back(self, k, e) ==
    IF RIsZero(self.field, k) THEN self
    ELSE IF self.nterms > 0 /\ e = last_exponents(self)
         THEN LET s == RAdd(self.field, self.coefficients[self.nterms], k)
              IN  IF RIsZero(self.field, s)
                  THEN [self EXCEPT
                          !.coefficients = SubSeq(@, 1, Len(@) - 1),
                          !.exponents = SubSeq(@, 1, (self.nterms - 1) * self.nvars),
                          !.nterms = @ - 1]
                  ELSE [self EXCEPT !.coefficients[self.nterms] = s]
         ELSE PushTerm(self, k, e)

\* faulty variant of BinarySearch: the term is pushed at the end, unsearched
BinarySearchPush(self, k, e, l, r) == PushTerm(self, k, e)

\* the binary search of append_monomial, l and r as in the source
RECURSIVE BinarySearch(_, _, _, _, _)
BinarySearch(self, k, e, l, r) ==
    IF l > r THEN InsertTerm(self, l, k, e)
    ELSE LET m == (l + r) \div 2
             o == cmp_exponents(e, exponents(self, m))
         IN  CASE o = 0  -> MergeTerm(self, m, k)
               [] o = 1  -> IF m + 1 = self.nterms THEN PushTerm(self, k, e)
                            ELSE BinarySearch(self, k, e, m + 1, r)
               [] o = -1 -> IF m = 0 THEN InsertTerm(self, 0, k, e)
                            ELSE BinarySearch(self, k, e, l, m - 1)

\* append_monomial panics on a row of the wrong length
AppendPanics(self, k, e) == ~RIsZero(self.field, k) /\ self.nvars # Len(e)

append_monomial(self, k, e) ==
    IF RIsZero(self.field, k) THEN self
    ELSE IF self.nterms = 0 \/ cmp_exponents(last_exponents(self), e) = -1
         THEN PushTerm(self, k, e)
         ELSE BinarySearch(self, k, e, 0, self.nterms)

\* check_consistency does not panic
check_consistency(self) ==
    /\ Len(self.coefficients) = self.nterms
    /\ Len(self.exponents) = self.nterms * self.nvars
    /\ \A i \in 1..Len(self.coefficients) : ~RIsZero(self.field, self.coefficients[i])
    /\ \A t \in 1..(self.nterms - 1) :
          cmp_exponents(exponents(self, t), exponents(self, t - 1)) = 1

(***************************************************************************)
(* Equality, addition, negation, subtraction                               *)
(***************************************************************************)
\* PartialEq::eq panics on two non-zero polynomials of different nvars
eq_panics(self, other) ==
    self.nvars # other.nvars /\ ~is_zero(self) /\ ~is_zero(other)

eq(self, other) ==
    IF self.nvars # other.nvars
    THEN is_zero(self) /\ is_zero(other)
    ELSE IF self.nterms # other.nterms THEN FALSE
    ELSE self.exponents = other.exponents /\ self.coefficients = other.coefficients

\* Add::add panics (the debug assertions only in a debug build)
add_panics(self, other, dbg) ==
    \/ dbg /\ self.field # other.field
    \/ dbg /\ ~(other.var_map = <<>> \/ self.var_map = other.var_map)
    \/ ~is_zero(self) /\ ~is_zero(other) /\ self.nvars # other.nvars

\* the three merge loops of Add::add; acc is (new_coefficients, new_exponents)
\* cut to new_nterms
RECURSIVE Merge(_, _, _, _, _)
Merge(self, other, i, j, acc) ==
    IF i < self.nterms /\ j < other.nterms
    THEN LET o == cmp_exponents(exponents(self, i), exponents(other, j))
         IN  CASE o = -1 -> Merge(self, other, i + 1, j,
                                  PushTerm(acc, self.coefficients[i + 1], exponents(self, i)))
               [] o = 1  -> Merge(self, other, i, j + 1,
                                  PushTerm(acc, other.coefficients[j + 1], exponents(other, j)))
               [] o = 0  ->
                    LET s == RAdd(self.field, self.coefficients[i + 1], other.coefficients[j + 1])
                    IN  Merge(self, other, i + 1, j + 1,
                              IF RIsZero(self.field, s) THEN acc
                              ELSE PushTerm(acc, s, exponents(self, i)))
    ELSE IF i < self.nterms
    THEN Merge(self, other, i + 1, j,
               PushTerm(acc, self.coefficients[i + 1], exponents(self, i)))
    ELSE IF j < other.nterms
    THEN Merge(self, other, i, j + 1,
               PushTerm(acc, other.coefficients[j + 1], exponents(other, j)))
    ELSE acc

\* faulty variant of add: the terms of other follow those of self, unmerged
add_unmerged(self, other) ==
    [self EXCEPT !.coefficients = @ \o other.coefficients,
                 !.exponents = @ \o other.exponents,
                 !.nterms = @ + other.nterms]

add(self, other) ==
    IF is_zero(self) THEN other
    ELSE IF is_zero(other) THEN self
    ELSE Merge(self, other, 0, 0, new(self.nvars, self.field, self.var_map))

neg(self) ==
    [self EXCEPT !.coefficients =
        [i \in 1..Len(self.coefficients) |-> RNeg(self.field, self.coefficients[i])]]

sub(self, other) == add(self, neg(other))

\* faulty variant of reverse: the terms stay in the order they were built
reverse_kept(self) == self

\* MultivariatePolynomial::reverse: coefficients reversed, the rows of the two
\* halves of the exponent buffer swapped pairwise (a middle row stays)
reverse(self) ==
    LET n == self.nterms
        v == self.nvars
        midu == IF n % 2 = 0 THEN v * (n \div 2) ELSE v * (n \div 2 + 1)
        rend == Len(self.exponents) - midu
        \* the source position (1-based) that ends at position k
        src(k) ==
            LET row == (k - 1) \div v
                col == (k - 1) % v
            IN  IF k <= midu
                THEN IF row < n \div 2
                     THEN midu + rend - (row + 1) * v + col + 1
                     ELSE k
                ELSE LET back == (Len(self.exponents) - k) \div v
                     IN  IF back < n \div 2 THEN back * v + col + 1 ELSE k
    IN  [self EXCEPT
           !.coefficients = [i \in 1..Len(@) |-> @[Len(@) + 1 - i]],
           !.exponents = IF v = 0 THEN @ ELSE [k \in 1..Len(@) |-> @[src(k)]]]

(***************************************************************************)
(* Exponent width                                                          *)
(* The exponent type E is an unsigned machine integer; the model takes the *)
(* instantiation E = u32, for which to_u32 and from_u32 are the identity,  *)
(* with the 32 bits scaled down to ExpBits.                                *)
(***************************************************************************)
\* the number of bits of E and of u32
ExpBits == 3

\* the number of values of E; E::MAX is ExpLimit - 1
ExpLimit == 2 ^ ExpBits

(***************************************************************************)
(* Heap multiplication                                                     *)
(***************************************************************************)
\* e1 + e2 on the exponent type, as a build without overflow checks computes
\* it: modulo 2^ExpBits
ExpAdd(x, y) == (x + y) % ExpLimit

\* e1 + e2 does not fit the exponent type
ExpOverflows(x, y) == x + y >= ExpLimit

\* zip(..).map(|(e1, e2)| e1 + e2)
RowAdd(x, y) == [i \in 1..ZipLen(x, y) |-> ExpAdd(x[i], y[i])]

\* the smallest / largest row of a non-empty set
MinRow(S) == CHOOSE m \in S : \A x \in S : cmp_exponents(m, x) <= 0

MaxRow(S) == CHOOSE m \in S : \A x \in S : cmp_exponents(m, x) >= 0

\* faulty variant of CacheAdd: a second pair for a row replaces the first one
CacheOverwrite(st, m, t) ==
    IF m \in DOMAIN st.cache
    THEN [st EXCEPT !.cache[m] = <<t>>]
    ELSE [st EXCEPT !.cache = (m :> <<t>>) @@ @,
                    !.h = @ (+) SetToBag({m})]

\* cache.entry(m).or_insert_with(|| { h.push(m); smallvec![] }).push(t)
CacheAdd(st, m, t) ==
    IF m \in DOMAIN st.cache
    THEN [st EXCEPT !.cache[m] = Append(@, t)]
    ELSE [st EXCEPT !.cache = (m :> <<t>>) @@ @,
                    !.h = @ (+) SetToBag({m})]

\* faulty variant of CacheTake: the entry leaves the map, the row stays in
\* the heap
CacheLeave(st, m) ==
    [st EXCEPT !.cache = [x \in (DOMAIN @) \ {m} |-> @[x]]]

\* h.pop() of row m together with cache.remove(m)
CacheTake(st, m) ==
    [st EXCEPT !.h = @ (-) SetToBag({m}),
               !.cache = [x \in (DOMAIN @) \ {m} |-> @[x]]]

\* the seeding of heap_mul with the pair (0, 0)
MulInit(self, other) ==
    LET monom == RowAdd(exponents(self, 0), exponents(other, 0))
    IN  [h |-> SetToBag({monom}),
         cache |-> (monom :> << <<0, 0>> >>),
         res |-> new_from(self)]

\* the loop over the pairs drained from one cache entry
RECURSIVE MulDrain(_, _, _, _, _, _)
MulDrain(self, other, pairs, k, st, coefficient) ==
    IF k > Len(pairs) THEN [st |-> st, coefficient |-> coefficient]
    ELSE LET i == pairs[k][1]
             j == pairs[k][2]
             c1 == RAdd(self.field, coefficient,
                        RMul(self.field, self.coefficients[i + 1], other.coefficients[j + 1]))
             st1 == IF j + 1 < other.nterms
                    THEN CacheAdd(st, RowAdd(exponents(self, i), exponents(other, j + 1)),
                                  <<i, j + 1>>)
                    ELSE st
             st2 == IF j = 0 /\ i + 1 < self.nterms
                    THEN CacheAdd(st1, RowAdd(exponents(self, i + 1), exponents(other, j)),
                                  <<i + 1, 0>>)
                    ELSE st1
         IN  MulDrain(self, other, pairs, k + 1, st2, c1)

\* one iteration of `while h.len() > 0`
MulStep(self, other, st) ==
    LET cur_mon == MinRow(BagToSet(st.h))
        d == MulDrain(self, other, st.cache[cur_mon], 1, CacheTake(st, cur_mon),
                      RZero(self.field))
    IN  IF RIsZero(self.field, d.coefficient) THEN d.st
        ELSE [d.st EXCEPT !.res = PushTerm(@, d.coefficient, cur_mon)]

RECURSIVE MulLoop(_, _, _)
MulLoop(self, other, st) ==
    IF BagToSet(st.h) = {} THEN st.res
    ELSE MulLoop(self, other, MulStep(self, other, st))

\* heap_mul indexes exponents(0) and coefficients[0] of both operands
heap_mul_panics(self, other) ==
    \/ ~SliceOk(self, 0) \/ ~SliceOk(other, 0)
    \/ Len(self.coefficients) = 0 \/ Len(other.coefficients) = 0

\* some e1 + e2 formed by heap_mul overflows; every pair (i, j) of terms is
\* formed once
heap_mul_overflows(self, other) ==
    \E i \in 0..(self.nterms - 1), j \in 0..(other.nterms - 1) :
        LET e1 == exponents(self, i)
            e2 == exponents(other, j)
        IN  \E v \in 1..ZipLen(e1, e2) : ExpOverflows(e1[v], e2[v])

\* heap_mul panics: on an index out of range, or on an overflowing e1 + e2 in
\* a build with overflow checks (dbg)
mul_panics(self, other, dbg) ==
    \/ heap_mul_panics(self, other)
    \/ dbg /\ heap_mul_overflows(self, other)

heap_mul(self, other) == MulLoop(self, other, MulInit(self, other))

(***************************************************************************)
(* Division                                                                *)
(* An outcome is [ok |-> FALSE] for a panic, else [ok |-> TRUE, q, r] with *)
(* failed telling whether the clean-division sentinel was returned.        *)
(***************************************************************************)
Panic == [ok |-> FALSE]

\* failed: "no", or why the sentinel (empty quotient, dividend) was returned:
\* "remainder" (the ring quot_rem left a remainder) or "exponent" (a term of
\* the dividend is not divisible by the one-term divisor)
DivOut(q, r, failed) == [ok |-> TRUE, q |-> q, r |-> r, failed |-> failed]

\* a polynomial result
Ok(v) == [ok |-> TRUE, val |-> v]

\* #[cfg(debug_assertions)] if !(&q * &div + r.clone() - self.clone()).is_zero() { panic }
DebugCheckPanics(self, div, q, r) ==
    \/ mul_panics(q, div, TRUE)
    \/ add_panics(heap_mul(q, div), r, TRUE)
    \/ add_panics(add(heap_mul(q, div), r), neg(self), TRUE)
    \/ ~is_zero(sub(add(heap_mul(q, div), r), self))

\* a term with a single non-zero column: resize by one zero row, set column var
PushPower(self, k, var, e) ==
    [self EXCEPT !.coefficients = Append(@, k),
                 !.exponents = @ \o [i \in 1..self.nvars |-> IF i = var + 1 THEN e ELSE 0],
                 !.nterms = @ + 1]

\* the first non-zero column of the dividend's leading row (0 when none)
RECURSIVE FirstNonZero(_, _)
FirstNonZero(row, i) ==
    IF i > Len(row) THEN 0
    ELSE IF row[i] # 0 THEN i - 1 ELSE FirstNonZero(row, i + 1)

\* "find the power in the dividend if it exists": <<coeff, dividendpos>>
RECURSIVE FindPower(_, _, _, _)
FindPower(self, var, pow, dividendpos) ==
    IF exponents(self, dividendpos)[var + 1] = pow
    THEN <<self.coefficients[dividendpos + 1], dividendpos>>
    ELSE IF dividendpos = 0 \/ exponents(self, dividendpos)[var + 1] < pow
    THEN <<RZero(self.field), dividendpos>>
    ELSE FindPower(self, var, pow, dividendpos - 1)

\* the inner `while bindex + 1 < div.nterms && ... < pow`
RECURSIVE SkipDivisor(_, _, _, _, _, _)
SkipDivisor(div, q, var, pow, bindex, qindex) ==
    IF /\ bindex + 1 < div.nterms
       /\ exponents(div, bindex)[var + 1] + exponents(q, qindex)[var + 1] < pow
    THEN SkipDivisor(div, q, var, pow, bindex + 1, qindex)
    ELSE bindex

\* the loop over the quotient terms found so far
RECURSIVE Contributions(_, _, _, _, _, _, _)
Contributions(div, q, var, pow, bindex, qindex, coeff) ==
    IF bindex < div.nterms /\ qindex < q.nterms
    THEN LET bi == SkipDivisor(div, q, var, pow, bindex, qindex)
             cf == IF exponents(div, bi)[var + 1] + exponents(q, qindex)[var + 1] = pow
                   THEN RAdd(div.field, coeff,
                             RNeg(div.field, RMul(div.field, div.coefficients[bi + 1],
                                                  q.coefficients[qindex + 1])))
                   ELSE coeff
         IN  Contributions(div, q, var, pow, bi, qindex + 1, cf)
    ELSE coeff

\* one iteration of the outer loop of synthetic_division, for power st.pow
SynStep(self, div, var, m, st) ==
    LET norm == div.coefficients[Len(div.coefficients)]
        f == FindPower(self, var, st.pow, st.dividendpos)
        coeff == Contributions(div, st.q, var, st.pow, 0, 0, f[1])
        qr == RQuotRem(self.field, coeff, norm)
        divides == st.pow >= m /\ RIsZero(self.field, qr[2])
    IN  IF RIsZero(self.field, coeff) THEN [st EXCEPT !.dividendpos = f[2]]
        ELSE IF divides
        THEN [st EXCEPT !.dividendpos = f[2],
                        !.q = PushPower(@, qr[1], var, st.pow - m)]
        ELSE [st EXCEPT !.dividendpos = f[2],
                        !.r = PushPower(@, coeff, var, st.pow)]

RECURSIVE SynLoop(_, _, _, _, _)
SynLoop(self, div, var, m, st) ==
    LET st1 == SynStep(self, div, var, m, st)
    IN  IF st.pow = 0 THEN st1
        ELSE SynLoop(self, div, var, m, [st1 EXCEPT !.pow = @ - 1])

\* faulty variant of SynRun: quotient and remainder are not reversed
SynRunUnreversed(self, div) ==
    LET var == FirstNonZero(last_exponents(self), 1)
        st == SynLoop(self, div, var, ldegree_max(div),
                      [dividendpos |-> self.nterms - 1, q |-> new_from(self),
                       r |-> new_from(self), pow |-> ldegree_max(self)])
    IN  [q |-> st.q, r |-> st.r]

SynRun(self, div) ==
    LET var == FirstNonZero(last_exponents(self), 1)
        st == SynLoop(self, div, var, ldegree_max(div),
                      [dividendpos |-> self.nterms - 1, q |-> new_from(self),
                       r |-> new_from(self), pow |-> ldegree_max(self)])
    IN  [q |-> reverse(st.q), r |-> reverse(st.r)]

\* synthetic_division unwraps the last coefficient of div and indexes the
\* last term of self
synthetic_division(self, div, dbg) ==
    IF self.nterms = 0 \/ Len(div.coefficients) = 0 THEN Panic
    ELSE LET x == SynRun(self, div)
         IN  IF dbg /\ DebugCheckPanics(self, div, x.q, x.r) THEN Panic
             ELSE DivOut(x.q, x.r, "no")

\* the tuples drained from one cache entry of heap_division
RECURSIVE DivDrain(_, _, _, _, _)
DivDrain(self, div, tuples, k, st) ==
    IF k > Len(tuples) THEN st
    ELSE LET qi == tuples[k][1]
             gi == tuples[k][2]
             next_in_divisor == tuples[k][3]
             q == st.q
             st0 == [st EXCEPT !.c = RSub(self.field, @,
                        RMul(self.field, q.coefficients[qi + 1], coefficient_back(div, gi)))]
             st1 ==
               IF next_in_divisor /\ gi + 1 < div.nterms
               THEN CacheAdd(st0, RowAdd(exponents(q, qi), exponents_back(div, gi + 1)),
                             <<qi, gi + 1, TRUE>>)
               ELSE IF ~next_in_divisor
               THEN LET s1 == [st0 EXCEPT !.index_of_div_monomial_in_quotient[gi + 1] = qi + 1]
                        s2 == IF qi + 1 < q.nterms
                              THEN CacheAdd(s1, RowAdd(exponents(q, qi + 1),
                                                       exponents_back(div, gi)),
                                            <<qi + 1, gi, FALSE>>)
                              ELSE [s1 EXCEPT !.div_monomial_in_heap[gi + 1] = FALSE]
                    IN  IF /\ gi + 1 < div.nterms
                           /\ ~s2.div_monomial_in_heap[gi + 2]
                           /\ s2.index_of_div_monomial_in_quotient[gi + 2] < q.nterms
                        THEN CacheAdd([s2 EXCEPT !.div_monomial_in_heap[gi + 2] = TRUE],
                                      RowAdd(exponents(q, qi), exponents_back(div, gi + 1)),
                                      <<qi, gi + 1, FALSE>>)
                        ELSE s2
               ELSE st0
         IN  DivDrain(self, div, tuples, k + 1, st1)

DivInit(self, div) ==
    [q |-> new_from(self), r |-> new_from(self),
     div_monomial_in_heap |-> [i \in 1..div.nterms |-> FALSE],
     index_of_div_monomial_in_quotient |-> [i \in 1..div.nterms |-> 0],
     cache |-> <<>>, h |-> EmptyBag, k |-> 0, c |-> RZero(self.field),
     failed |-> FALSE, tripped |-> FALSE]

\* the new quotient row enters through the quotient heap, the divisor heap,
\* or the one-shot switch between them; tripped records a failed
\* debug_assert!(div_monomial_in_heap.iter().any(|c| !c))
DivIntroduce(div, st) ==
    LET q == st.q
        qn_g1 == RowAdd(last_exponents(q), exponents_back(div, 1))
    IN  IF div.nterms = 1 THEN st
        ELSE IF q.nterms < div.nterms
        THEN CacheAdd(st, qn_g1, <<q.nterms - 1, 1, TRUE>>)
        ELSE IF q.nterms > div.nterms
        THEN IF ~st.div_monomial_in_heap[2]
             THEN CacheAdd([st EXCEPT !.div_monomial_in_heap[2] = TRUE],
                           qn_g1, <<q.nterms - 1, 1, FALSE>>)
             ELSE st
        ELSE CacheAdd([st EXCEPT
                         !.index_of_div_monomial_in_quotient =
                              [i \in 1..div.nterms |-> q.nterms - 1],
                         !.tripped = @ \/ (\A i \in 1..div.nterms :
                                              st.div_monomial_in_heap[i]),
                         !.div_monomial_in_heap[2] = TRUE],
                      qn_g1, <<q.nterms - 1, 1, FALSE>>)

\* the head of one iteration: the row m comes from the dividend or from the
\* heap, c starts as the dividend's coefficient or as zero, and the map
\* entry of m is drained when m is the top of the heap
DivPull(self, st) ==
    LET heap == BagToSet(st.h)
        top == MaxRow(heap)
        take == /\ st.k < self.nterms
                /\ (heap = {} \/ cmp_exponents(exponents_back(self, st.k), top) >= 0)
        m == IF take THEN exponents_back(self, st.k) ELSE top
    IN  [m |-> m,
         s0 |-> IF take
                THEN [st EXCEPT !.c = coefficient_back(self, st.k), !.k = @ + 1]
                ELSE [st EXCEPT !.c = RZero(self.field)],
         drains |-> heap # {} /\ m = top]

\* one iteration of `while !h.is_empty() || k < self.nterms`
DivStep(self, div, st) ==
    LET pull == DivPull(self, st)
        m == pull.m
        s1 == IF pull.drains
              THEN DivDrain(self, div, st.cache[m], 1, CacheTake(pull.s0, m))
              ELSE pull.s0
        qr == RQuotRem(self.field, s1.c, lcoeff(div))
    IN  IF ~RIsZero(self.field, s1.c) /\ RowGeqAll(m, last_exponents(div))
        THEN IF ~RIsZero(self.field, qr[2])
             THEN [s1 EXCEPT !.failed = TRUE]
             ELSE DivIntroduce(div,
                     [s1 EXCEPT !.q = PushTerm(@, qr[1], RowSub(m, last_exponents(div)))])
        ELSE IF ~RIsZero(self.field, s1.c)
        THEN [s1 EXCEPT !.r = PushTerm(@, s1.c, m)]
        ELSE s1

DivDone(self, st) == st.failed \/ (BagToSet(st.h) = {} /\ st.k >= self.nterms)

RECURSIVE DivLoop(_, _, _)
DivLoop(self, div, st) ==
    IF DivDone(self, st) THEN st
    ELSE DivLoop(self, div, DivStep(self, div, st))

\* faulty variant of DivSentinel: the partial quotient and remainder are returned
DivPartial(self, st) == DivOut(reverse(st.q), reverse(st.r), "remainder")

\* return (MultivariatePolynomial::new_from(&self, None), self.clone())
DivSentinel(self, st) == DivOut(new_from(self), self, "remainder")

\* the end of heap_division: q.reverse(), r.reverse() and the debug check
DivFinish(self, div, st, dbg) ==
    LET q == reverse(st.q)
        r == reverse(st.r)
    IN  IF dbg /\ st.tripped THEN Panic
        ELSE IF st.failed THEN DivSentinel(self, st)
        ELSE IF dbg /\ DebugCheckPanics(self, div, q, r) THEN Panic
        ELSE DivOut(q, r, "no")

heap_division(self, div, dbg) ==
    DivFinish(self, div, DivLoop(self, div, DivInit(self, div)), dbg)

\* the loop of quot_rem for a divisor of one term
RECURSIVE MonomialDiv(_, _, _, _)
MonomialDiv(self, div, t, q) ==
    IF t >= self.nterms THEN DivOut(q, new_from(self), "no")
    ELSE LET qr == RQuotRem(self.field, self.coefficients[t + 1], div.coefficients[1])
             te == exponents(self, t)
             de == exponents(div, 0)
         IN  IF ~RIsZero(self.field, qr[2])
             THEN DivOut(new_from(self), self, "remainder")
             ELSE IF \E i \in 1..ZipLen(te, de) : te[i] < de[i]
             THEN DivOut(new_from(self), self, "exponent")
             ELSE MonomialDiv(self, div, t + 1, PushTerm(q, qr[1], RowSub(te, de)))

\* faulty variant of quot_rem: the dividend is tested for zero before the divisor
quot_rem_dividend_first(self, div, dbg) ==
    IF is_zero(self) THEN DivOut(self, self, "no")
    ELSE IF is_zero(div) THEN Panic
    ELSE IF is_one(div) THEN DivOut(self, new_from(self), "no")
    ELSE IF div.nterms = 1 THEN MonomialDiv(self, div, 0, new_from(self))
    ELSE heap_division(self, div, dbg)

quot_rem(self, div, dbg) ==
    IF is_zero(div) THEN Panic
    ELSE IF is_zero(self) THEN DivOut(self, self, "no")
    ELSE IF is_one(div) THEN DivOut(self, new_from(self), "no")
    ELSE IF div.nterms = 1 THEN MonomialDiv(self, div, 0, new_from(self))
    ELSE heap_division(self, div, dbg)

(***************************************************************************)
(* Finite-field division                                                   *)
(***************************************************************************)
\* for c in &mut coefficients { mul_assign(c, k) }
ScaleCoefficients(self, k) ==
    [self EXCEPT !.coefficients =
        [i \in 1..Len(self.coefficients) |-> RMul(self.field, self.coefficients[i], k)]]

\* the loop of fast_divmod for a non-constant divisor of one term
RECURSIVE MonomialDivmod(_, _, _, _, _, _)
MonomialDivmod(self, dive, inv, t, q, r) ==
    IF t >= self.nterms THEN DivOut(q, r, "no")
    ELSE LET me == exponents(self, t)
         IN  IF RowGeqAll(me, dive)
             THEN MonomialDivmod(self, dive, inv, t + 1,
                      PushTerm(q, RMul(self.field, self.coefficients[t + 1], inv),
                               RowSub(me, dive)), r)
             ELSE MonomialDivmod(self, dive, inv, t + 1, q,
                      PushTerm(r, self.coefficients[t + 1], me))

\* the quotient of the normalised division scaled by the factor k
ScaleQuotient(res, k) ==
    IF res.ok THEN [res EXCEPT !.q = ScaleCoefficients(@, k)] ELSE res

fast_divmod(self, div, dbg) ==
    IF div.nterms = 1
    THEN LET inv == RInv(self.field, div.coefficients[1])
         IN  IF is_constant(div)
             THEN DivOut(ScaleCoefficients(self, inv), new_from(self), "no")
             ELSE MonomialDivmod(self, exponents(div, 0), inv, 0,
                                 new_from(self), new_from(self))
    ELSE IF ~RIsOne(self.field, lcoeff(div))
    THEN LET o == lcoeff(div)
             inv == RInv(self.field, lcoeff(div))
         IN  ScaleQuotient(synthetic_division(self, ScaleCoefficients(div, inv), dbg), o)
    ELSE synthetic_division(self, div, dbg)

(***************************************************************************)
(* Input domains                                                           *)
(***************************************************************************)
Rows(n) == [1..n -> 0..MaxExp]

\* the rows over one variable of degree at most d
UniRows(d) == [1..1 -> 0..d]

\* the rows over two variables of total degree at most MaxExp
BiRows == {e \in Rows(2) : e[1] + e[2] <= MaxExp}

\* sample of the non-zero elements of each ring
Coefs(R) ==
    CASE R = "Z"  -> {-1, 1, 2}
      [] R = "Zp" -> {1, 2, Modulus - 1}
      [] R = "Q"  -> {<<1, 1>>, <<2, 1>>}

\* one and minus one
Units(R) ==
    CASE R = "Z"  -> {-1, 1}
      [] R = "Zp" -> {1, Modulus - 1}
      [] R = "Q"  -> {<<1, 1>>, <<-1, 1>>}

\* the polynomial with the terms of f (a function from rows to non-zero
\* coefficients), in canonical order
RECURSIVE FromTerms(_, _, _)
FromTerms(f, S, acc) ==
    IF S = {} THEN acc
    ELSE LET m == MinRow(S)
         IN  FromTerms(f, S \ {m}, PushTerm(acc, f[m], m))

SubsetsUpTo(S, t) == {X \in SUBSET S : Cardinality(X) <= t}

\* the canonical polynomials over n variables with at most t terms, rows in
\* rows and coefficients in coefs
PolysOver(n, R, rows, t, coefs) ==
    {FromTerms(f, DOMAIN f, new(n, R, <<>>)) :
        f \in UNION {[X -> coefs] : X \in SubsetsUpTo(rows, t)}}

\* the families of operands over ring R; the two operands of an operation
\* come from the same family, so they agree on nvars
Families(R) ==
    CASE R = "Z"  -> {PolysOver(2, R, BiRows, MaxTerms, Units(R)),
                      PolysOver(1, R, UniRows(MaxExp + 1), MaxTerms, Coefs(R))}
      [] R = "Zp" -> {PolysOver(1, R, UniRows(MaxExp + 1), MaxTerms, Units(R))}
      [] R = "Q"  -> {PolysOver(1, R, UniRows(MaxExp), MaxTerms, Coefs(R))}

\* x^3 - 1 and x - 1 over the integers
X3Minus1 == FromTerms([e \in {<<0>>, <<3>>} |-> IF e = <<0>> THEN -1 ELSE 1],
                      {<<0>>, <<3>>}, new(1, "Z", <<>>))

XMinus1 == FromTerms([e \in {<<0>>, <<1>>} |-> IF e = <<0>> THEN -1 ELSE 1],
                     {<<0>>, <<1>>}, new(1, "Z", <<>>))

\* the operand pairs: both from one family, or the zero polynomial of
\* MultivariatePolynomial::zero (nvars = 0) on one side
Pairs(R) ==
    (UNION {S \X S : S \in Families(R)})
      \cup (UNION {({zero(R)} \X S) \cup (S \X {zero(R)}) : S \in Families(R)})
      \cup (IF R = "Z" THEN {<<X3Minus1, XMinus1>>} ELSE {})

(***************************************************************************)
(* Reference semantics: the quadratic product                              *)
(***************************************************************************)
\* the sum of x_i * y_j over the pairs from (i, j) on whose rows add up to e
RECURSIVE PairSum(_, _, _, _, _)
PairSum(x, y, e, i, j) ==
    IF i >= x.nterms THEN RZero(x.field)
    ELSE IF j >= y.nterms THEN PairSum(x, y, e, i + 1, 0)
    ELSE LET rest == PairSum(x, y, e, i, j + 1)
         IN  IF RowAdd(exponents(x, i), exponents(y, j)) = e
             THEN RAdd(x.field, RMul(x.field, x.coefficients[i + 1], y.coefficients[j + 1]),
                       rest)
             ELSE rest

RECURSIVE CollectRows(_, _, _, _)
CollectRows(x, y, S, acc) ==
    IF S = {} THEN acc
    ELSE LET m == MinRow(S)
             k == PairSum(x, y, m, 0, 0)
         IN  CollectRows(x, y, S \ {m},
                         IF RIsZero(x.field, k) THEN acc ELSE PushTerm(acc, k, m))

\* sum over all i, j of x_i * y_j, equal rows merged, zero sums dropped
RefMul(x, y) ==
    CollectRows(x, y,
                {RowAdd(exponents(x, i), exponents(y, j)) :
                    i \in 0..(x.nterms - 1), j \in 0..(y.nterms - 1)},
                new(x.nvars, x.field, x.var_map))

(***************************************************************************)
(* Construction by append calls                                            *)
(***************************************************************************)
\* no operation has produced a result yet
Idle == [ok |-> TRUE, kind |-> "none"]

InitAppend ==
    /\ F \in {"Z", "Zp"}
    /\ debug = FALSE
    /\ \E n \in {1, 2} :   /\ p = new(n, F, <<>>)
                            /\ sums = [e \in Rows(n) |-> RZero(F)]
    /\ napp = 0
    /\ steps = 0
    /\ a = zero(F) /\ b = zero(F) /\ c = zero(F)
    /\ op = "new"
    /\ out = Idle

AppendMonomial ==
    /\ napp < MaxAppends
    /\ \E e \in DOMAIN sums, k \in Coefs(F) \cup {RZero(F)} :
          /\ p' = append_monomial(p, k, e)
          /\ sums' = [sums EXCEPT ![e] = RAdd(F, @, k)]
    /\ napp' = napp + 1
    /\ op' = "append_monomial"
    /\ UNCHANGED <<F, debug, a, b, c, out, steps>>

\* the caller's obligation: the row is not smaller than the current last row
AppendMonomialBack ==
    /\ napp < MaxAppends
    /\ \E e \in DOMAIN sums, k \in Coefs(F) \cup {RZero(F)} :
          /\ p.nterms > 0 => cmp_exponents(e, last_exponents(p)) >= 0
          /\ p' = append_monomial_back(p, k, e)
          /\ sums' = [sums EXCEPT ![e] = RAdd(F, @, k)]
    /\ napp' = napp + 1
    /\ op' = "append_monomial_back"
    /\ UNCHANGED <<F, debug, a, b, c, out, steps>>

NextAppend == AppendMonomial \/ AppendMonomialBack

SpecAppend == InitAppend /\ [][NextAppend]_vars

\* the term index holding row e, or -1
RECURSIVE FindRow(_, _, _)
FindRow(self, e, i) ==
    IF i >= self.nterms THEN -1
    ELSE IF exponents(self, i) = e THEN i ELSE FindRow(self, e, i + 1)

\* the coefficient a polynomial stores for row e (the ring zero when absent)
CoefOf(self, e) ==
    LET i == FindRow(self, e, 0)
    IN  IF i < 0 THEN RZero(self.field) ELSE self.coefficients[i + 1]

\* C4: after any sequence of append_monomial calls and of append_monomial_back
\* calls with a row not below the last one, the polynomial is the canonical
\* form of the sum of the appended monomials.
C4_AppendCanonicalSum ==
    /\ check_consistency(p)
    /\ \A e \in DOMAIN sums : CoefOf(p, e) = sums[e]

C4_Witness ==
    /\ F = "Z"
    /\ napp = 3
    /\ op = "append_monomial_back"
    /\ p.nvars = 2
    /\ p.coefficients = <<3>>

(***************************************************************************)
(* One operation on a pair of operands                                     *)
(***************************************************************************)
Init ==
    /\ F \in {"Z", "Zp", "Q"}
    /\ debug = FALSE
    /\ \E x \in Pairs(F) : a = x[1] /\ b = x[2]
    /\ c = zero(F)
    /\ p = zero(F)
    /\ sums = <<>>
    /\ napp = 0
    /\ steps = 0
    /\ op = "new"
    /\ out = Idle

\* a + b
Add ==
    /\ op = "new"
    /\ \E dbg \in BOOLEAN :
          /\ debug' = dbg
          /\ out' = IF add_panics(a, b, dbg) THEN Panic ELSE Ok(add(a, b))
    /\ op' = "add"
    /\ UNCHANGED <<F, a, b, c, p, sums, napp, steps>>

\* a - b
Sub ==
    /\ op = "new"
    /\ \E dbg \in BOOLEAN :
          /\ debug' = dbg
          /\ out' = IF add_panics(a, neg(b), dbg) THEN Panic ELSE Ok(sub(a, b))
    /\ op' = "sub"
    /\ UNCHANGED <<F, a, b, c, p, sums, napp, steps>>

\* -a
Neg ==
    /\ op = "new"
    /\ out' = Ok(neg(a))
    /\ op' = "neg"
    /\ UNCHANGED <<F, debug, a, b, c, p, sums, napp, steps>>

\* a * b
Mul ==
    /\ op = "new"
    /\ out' = IF mul_panics(a, b, debug) THEN Panic ELSE Ok(heap_mul(a, b))
    /\ op' = "heap_mul"
    /\ UNCHANGED <<F, debug, a, b, c, p, sums, napp, steps>>

\* a.quot_rem(b)
QuotRem ==
    /\ op = "new"
    /\ \E dbg \in BOOLEAN :
          /\ debug' = dbg
          /\ out' = quot_rem(a, b, dbg)
    /\ op' = "quot_rem"
    /\ UNCHANGED <<F, a, b, c, p, sums, napp, steps>>

Next == Add \/ Sub \/ Neg \/ Mul \/ QuotRem

Spec == Init /\ [][Next]_vars

\* the operations taken one at a time
SpecMul == Init /\ [][Mul]_vars

SpecAdd == Init /\ [][Add]_vars

\* x + y and x - y over the integers (x is the first variable)
XPlusY == FromTerms([e \in {<<0, 1>>, <<1, 0>>} |-> 1],
                    {<<0, 1>>, <<1, 0>>}, new(2, "Z", <<>>))

XMinusY == FromTerms([e \in {<<0, 1>>, <<1, 0>>} |-> IF e = <<1, 0>> THEN 1 ELSE -1],
                     {<<0, 1>>, <<1, 0>>}, new(2, "Z", <<>>))

\* C1: for non-zero well-formed a, b over the same ring and variables,
\* heap_mul(a, b) is the product of the quadratic reference multiplier, and
\* (x + y)(x - y) over the integers is the rows (0,2), (2,0) with the
\* coefficients (-1, 1).
C1_HeapMulIsReference ==
    (op = "heap_mul" /\ ~is_zero(a) /\ ~is_zero(b)) =>
        /\ out.ok
        /\ out.val = RefMul(a, b)
        /\ (F = "Z" /\ a = XPlusY /\ b = XMinusY) =>
              /\ out.val.exponents = <<0, 2, 2, 0>>
              /\ out.val.coefficients = <<-1, 1>>

C1_Witness ==
    /\ op = "heap_mul"
    /\ F = "Z"
    /\ a = XPlusY
    /\ b = XMinusY
    /\ out.ok
    /\ out.val.nterms = 2

\* C3: every polynomial returned by add, sub, neg, heap_mul or quot_rem
\* (quotient and remainder) on well-formed operands is well-formed.
C3_ResultsWellFormed ==
    /\ (op \in {"add", "sub", "neg", "heap_mul"} /\ out.ok) => check_consistency(out.val)
    /\ (op = "quot_rem" /\ out.ok) => check_consistency(out.q) /\ check_consistency(out.r)

C3_Witness ==
    /\ op = "quot_rem"
    /\ out.ok
    /\ out.failed = "no"
    /\ a.nvars = 2
    /\ out.q.nterms >= 1
    /\ out.r.nterms >= 2

\* C10: a + b and b + a compare equal and have identical coefficient and
\* exponent sequences (same nvars, or one of them zero).
C10_AddCommutes ==
    op = "add" =>
        /\ out.ok
        /\ ~add_panics(b, a, debug)
        /\ ~eq_panics(out.val, add(b, a))
        /\ eq(out.val, add(b, a))
        /\ out.val.coefficients = add(b, a).coefficients
        /\ out.val.exponents = add(b, a).exponents

C10_Witness ==
    /\ op = "add"
    /\ out.ok
    /\ a # b
    /\ a.nterms = 2
    /\ b.nterms = 2
    /\ out.val.nterms = 3

\* the constant polynomial k in the variables of self
ConstantLike(self, k) == from_constant(k, self.nvars, self.field)

\* the monomial k * x over one variable
LinearX(R, k) == from_monomial(k, <<1>>, R)

\* the ring quot_rem of a coefficient by the divisor's leading coefficient
\* left a non-zero remainder during a.quot_rem(b)
RingRemainderLeft(self, div) ==
    /\ ~is_zero(div) /\ ~is_zero(self) /\ ~is_one(div)
    /\ IF div.nterms = 1
       THEN MonomialDiv(self, div, 0, new_from(self)).failed = "remainder"
       ELSE DivLoop(self, div, DivInit(self, div)).failed

\* C5: when a ring quot_rem by the divisor's leading coefficient leaves a
\* non-zero remainder during quot_rem(a, b), the call does not panic and
\* returns the empty quotient with the dividend a as remainder; x / 2 over
\* the integers returns (0, x), over the rationals ((1/2) x, 0).
C5_CleanDivisionFailure ==
    op = "quot_rem" =>
        /\ RingRemainderLeft(a, b) =>
              /\ ~IsField(F)
              /\ out.ok
              /\ out.q = new_from(a)
              /\ out.r = a
        /\ (F = "Z" /\ a = LinearX("Z", 1) /\ b = ConstantLike(a, 2)) =>
              /\ out.ok
              /\ is_zero(out.q)
              /\ out.r = a
        /\ (F = "Q" /\ a = LinearX("Q", <<1, 1>>) /\ b = ConstantLike(a, <<2, 1>>)) =>
              /\ out.ok
              /\ out.q = LinearX("Q", <<1, 2>>)
              /\ is_zero(out.r)

C5_Witness ==
    /\ op = "quot_rem"
    /\ debug
    /\ F = "Z"
    /\ b.nterms = 2
    /\ RingRemainderLeft(a, b)
    /\ out.ok
    /\ out.r = a

\* C6: quot_rem(a, b) aborts when b is zero, also when a is zero too;
\* otherwise it returns (0, 0) for a = 0, and (a, 0) for b the constant 1.
C6_QuotRemSpecialCases ==
    op = "quot_rem" =>
        /\ is_zero(b) => ~out.ok
        /\ (~is_zero(b) /\ is_zero(a)) =>
              out.ok /\ is_zero(out.q) /\ is_zero(out.r)
        /\ (~is_zero(b) /\ b = ConstantLike(b, ROne(F))) =>
              out.ok /\ out.q = a /\ is_zero(out.r)

C6_Witness ==
    /\ op = "quot_rem"
    /\ is_zero(a)
    /\ is_zero(b)
    /\ ~out.ok

\* the leading monomial of x is divisible by the leading monomial of y
LeadingDivides(x, y) == RowGeqAll(last_exponents(x), last_exponents(y))

\* C2: for well-formed a and non-zero b, quot_rem(a, b) returns (q, r) with
\* q*b + r = a and r = 0 or the leading monomial of r not divisible by the
\* leading monomial of b; (x^3 - 1) / (x - 1) gives q = x^2 + x + 1, r = 0.
C2_QuotRemRoundTrip ==
    (op = "quot_rem" /\ ~is_zero(b) /\ a.nvars = b.nvars) =>
        /\ out.ok
        /\ eq(add(RefMul(out.q, b), out.r), a)
        /\ is_zero(out.r) \/ ~LeadingDivides(out.r, b)
        /\ (F = "Z" /\ a = X3Minus1 /\ b = XMinus1) =>
              /\ out.q.coefficients = <<1, 1, 1>>
              /\ out.q.exponents = <<0, 1, 2>>
              /\ is_zero(out.r)

(***************************************************************************)
(* The division routines on univariate operands                            *)
(***************************************************************************)
\* the non-zero dividends and divisors over one variable
UniDividends(R) ==
    {x \in PolysOver(1, R, UniRows(MaxExp + 2), MaxTerms, Coefs(R)) : ~is_zero(x)}

UniDivisors(R) ==
    {x \in PolysOver(1, R, UniRows(MaxExp), MaxTerms, Coefs(R)) : ~is_zero(x)}

InitUni ==
    /\ F \in {"Z", "Zp", "Q"}
    /\ debug \in BOOLEAN
    /\ a \in UniDividends(F)
    /\ b \in UniDivisors(F)
    /\ c = zero(F)
    /\ p = zero(F)
    /\ sums = <<>>
    /\ napp = 0
    /\ steps = 0
    /\ op = "new"
    /\ out = Idle

\* a.synthetic_division(b)
SyntheticDivision ==
    /\ op = "new"
    /\ out' = synthetic_division(a, b, debug)
    /\ op' = "synthetic_division"
    /\ UNCHANGED <<F, debug, a, b, c, p, sums, napp, steps>>

\* a.heap_division(b)
HeapDivision ==
    /\ op = "new"
    /\ out' = heap_division(a, b, debug)
    /\ op' = "heap_division"
    /\ UNCHANGED <<F, debug, a, b, c, p, sums, napp, steps>>

\* a.fast_divmod(&mut b), defined for finite fields only
FastDivmod ==
    /\ op = "new"
    /\ F = "Zp"
    /\ out' = fast_divmod(a, b, debug)
    /\ op' = "fast_divmod"
    /\ UNCHANGED <<F, debug, a, b, c, p, sums, napp, steps>>

NextUni == SyntheticDivision \/ HeapDivision \/ FastDivmod

SpecUni == InitUni /\ [][NextUni]_vars

\* synthetic division taken alone
SpecSyn == InitUni /\ [][SyntheticDivision]_vars

\* both calls abort, or both return the same quotient and remainder
SameOutcome(x, y) ==
    /\ x.ok = y.ok
    /\ x.ok => (x.q = y.q /\ x.r = y.r)

\* C7 as stated: on non-zero univariate a, b over a Euclidean domain
\* synthetic_division and heap_division return identical (q, r) pairs.
C7_SyntheticEqualsHeap ==
    op = "synthetic_division" =>
        LET h == heap_division(a, b, debug)
        IN  out.ok /\ h.ok /\ out.q = h.q /\ out.r = h.r

\* C7, amended: the two routines end alike (the same (q, r), or both abort
\* on the debug check) unless heap_division reports a clean-division
\* failure, which never happens over a field.
C7_SyntheticEqualsHeapUnlessFailure ==
    op = "synthetic_division" =>
        LET h == heap_division(a, b, debug)
        IN  /\ (h.ok /\ h.failed = "remainder") \/ SameOutcome(out, h)
            /\ (IsField(F) /\ h.ok) => h.failed = "no"

C7_Witness ==
    /\ op = "synthetic_division"
    /\ F = "Z"
    /\ out.ok
    /\ out.q.nterms = 3
    /\ out.r.nterms = 1
    /\ out.q = heap_division(a, b, debug).q

\* C8: for non-zero univariate a, b over a finite field, also when the
\* leading coefficient of b is not 1, fast_divmod(a, b) returns (q, r) with
\* q*b + r = a and r = 0 or deg(r) < deg(b).
C8_FastDivmod ==
    op = "fast_divmod" =>
        /\ out.ok
        /\ eq(add(RefMul(out.q, b), out.r), a)
        /\ is_zero(out.r) \/ ldegree_max(out.r) < ldegree_max(b)

(***************************************************************************)
(* The ring laws on three operands                                         *)
(***************************************************************************)
InitRing ==
    /\ F \in {"Z", "Zp"}
    /\ debug \in BOOLEAN
    /\ a \in PolysOver(2, F, BiRows, MaxTerms, Units(F))
    /\ b \in PolysOver(2, F, BiRows, MaxTerms, Units(F))
    /\ c \in PolysOver(2, F, BiRows, MaxTerms, Units(F))
    /\ p = zero(F)
    /\ sums = <<>>
    /\ napp = 0
    /\ steps = 0
    /\ op = "new"
    /\ out = Idle

\* x * (y + z)
MulOfSumOutcome(x, y, z, dbg) ==
    IF add_panics(y, z, dbg) THEN Panic
    ELSE IF mul_panics(x, add(y, z), dbg) THEN Panic
    ELSE Ok(heap_mul(x, add(y, z)))

\* x * y + x * z
SumOfMulsOutcome(x, y, z, dbg) ==
    IF mul_panics(x, y, dbg) \/ mul_panics(x, z, dbg) THEN Panic
    ELSE IF add_panics(heap_mul(x, y), heap_mul(x, z), dbg) THEN Panic
    ELSE Ok(add(heap_mul(x, y), heap_mul(x, z)))

MulOfSum ==
    /\ op = "new"
    /\ out' = MulOfSumOutcome(a, b, c, debug)
    /\ op' = "mul_of_sum"
    /\ UNCHANGED <<F, debug, a, b, c, p, sums, napp, steps>>

SumOfMuls ==
    /\ op = "new"
    /\ out' = SumOfMulsOutcome(a, b, c, debug)
    /\ op' = "sum_of_muls"
    /\ UNCHANGED <<F, debug, a, b, c, p, sums, napp, steps>>

NextRing == MulOfSum \/ SumOfMuls

SpecRing == InitRing /\ [][NextRing]_vars

\* C9: a*(b+c) = a*b + a*c for all well-formed a, b, c over the same ring and
\* variables, also when b + c, b or c is the zero polynomial.
C9_Distributes ==
    op = "mul_of_sum" =>
        LET rhs == SumOfMulsOutcome(a, b, c, debug)
        IN  /\ out.ok
            /\ rhs.ok
            /\ eq(out.val, rhs.val)

(***************************************************************************)
(* Multiplication by the zero polynomial                                   *)
(***************************************************************************)
\* C11: heap_mul(a, b) where a or b has no terms returns the zero polynomial
\* (nterms = 0) without aborting.
C11_MulByZeroReturnsZero ==
    (op = "heap_mul" /\ (is_zero(a) \/ is_zero(b))) =>
        /\ out.ok
        /\ is_zero(out.val)

(***************************************************************************)
(* Variable maps                                                           *)
(* var_map is <<>> for None and <<vm>> for Some(vm), vm a sequence of      *)
(* identifiers.                                                            *)
(***************************************************************************)
Identifiers == {"x", "y", "z"}

\* iter().position(|x| x == v), 0-based; the caller has checked v occurs
RECURSIVE Position(_, _, _)
Position(vm, v, i) ==
    IF vm[i + 1] = v THEN i ELSE Position(vm, v, i + 1)

\* the loop over new_var_pos_other zipped with other's variables: the variables
\* of other not yet in the map are pushed, and pos records where each variable
\* of other went
RECURSIVE UnifyMaps(_, _, _, _)
UnifyMaps(map, ovm, i, pos) ==
    IF i >= Len(pos) \/ i >= Len(ovm) THEN [map |-> map, pos |-> pos]
    ELSE LET v == ovm[i + 1]
         IN  IF \E q \in 1..Len(map) : map[q] = v
             THEN UnifyMaps(map, ovm, i + 1,
                            [pos EXCEPT ![i + 1] = Position(map, v, 0)])
             ELSE UnifyMaps(Append(map, v), ovm, i + 1,
                            [pos EXCEPT ![i + 1] = Len(map)])

\* new_var_map and new_var_pos_other
NewVarMap(self, other) ==
    UnifyMaps(self.var_map[1], other.var_map[1], 0, [i \in 1..other.nvars |-> 0])

\* newexp of self: each row copied to the front of a zeroed row of length l
RECURSIVE PadRows(_, _, _, _)
PadRows(self, l, t, acc) ==
    IF t >= self.nterms THEN acc
    ELSE PadRows(self, l, t + 1,
                 acc \o exponents(self, t) \o [i \in 1..(l - self.nvars) |-> 0])

\* faulty variant of Scatter: the row of other is copied to the front of the
\* zeroed row, as the rows of self are
ScatterFront(row, pos, var, newexp) ==
    [i \in 1..Len(newexp) |-> IF i <= Len(row) THEN row[i] ELSE 0]

\* newexp of one term of other: zeroed, then newexp[pos[var]] = e for var = 0, 1, ...
RECURSIVE Scatter(_, _, _, _)
Scatter(row, pos, var, newexp) ==
    IF var >= Len(row) THEN newexp
    ELSE Scatter(row, pos, var + 1, [newexp EXCEPT ![pos[var + 1] + 1] = row[var + 1]])

\* the terms of other appended one by one to newother
RECURSIVE Reconstruct(_, _, _, _, _)
Reconstruct(other, l, pos, t, newother) ==
    IF t >= other.nterms THEN newother
    ELSE Reconstruct(other, l, pos, t + 1,
             append_monomial(newother, other.coefficients[t + 1],
                             Scatter(exponents(other, t), pos, 0, [i \in 1..l |-> 0])))

\* assert!(self.var_map.is_some() && other.var_map.is_some())
unify_panics(self, other) == self.var_map = <<>> \/ other.var_map = <<>>

\* the pair (self, other) after self.unify_var_map(&mut other)
unify_var_map(self, other) ==
    LET u == NewVarMap(self, other)
        l == Len(u.map)
    IN  [ok |-> TRUE,
         a  |-> [self EXCEPT !.var_map = <<u.map>>,
                             !.exponents = PadRows(self, l, 0, <<>>),
                             !.nvars = l],
         b  |-> Reconstruct(other, l, u.pos, 0, new(l, other.field, <<u.map>>))]

\* p with the variable map vm
WithVarMap(q, vm) == [q EXCEPT !.var_map = <<vm>>]

\* the canonical integer polynomials over the variables vm
VarPolys(vm) ==
    {WithVarMap(q, vm) :
        q \in IF Len(vm) = 1
              THEN PolysOver(1, "Z", UniRows(MaxExp), MaxTerms, {1, 2})
              ELSE PolysOver(2, "Z", BiRows, MaxTerms, {1, 2})}

VarMapsA == {<<"x">>, <<"x", "y">>, <<"y", "x">>}

VarMapsB == {<<"x">>, <<"y">>, <<"y", "z">>, <<"z", "y">>, <<"z", "x">>}

\* 2x + y over {x, y}, y + 3z over {y, z} and 2x + 2y + 3z over {x, y, z}
TwoXPlusY ==
    WithVarMap(FromTerms([e \in {<<1, 0>>, <<0, 1>>} |-> IF e = <<1, 0>> THEN 2 ELSE 1],
                         {<<1, 0>>, <<0, 1>>}, new(2, "Z", <<>>)), <<"x", "y">>)

YPlus3Z ==
    WithVarMap(FromTerms([e \in {<<1, 0>>, <<0, 1>>} |-> IF e = <<1, 0>> THEN 1 ELSE 3],
                         {<<1, 0>>, <<0, 1>>}, new(2, "Z", <<>>)), <<"y", "z">>)

TwoXPlus2YPlus3Z ==
    WithVarMap(FromTerms([e \in {<<1, 0, 0>>, <<0, 1, 0>>, <<0, 0, 1>>} |->
                             IF e = <<0, 0, 1>> THEN 3 ELSE 2],
                         {<<1, 0, 0>>, <<0, 1, 0>>, <<0, 0, 1>>}, new(3, "Z", <<>>)),
               <<"x", "y", "z">>)

\* the polynomials without a variable map
NoVarMapPolys == PolysOver(1, "Z", UniRows(MaxExp), MaxTerms, {1, 2})

\* the operand pairs of unify_var_map
UnifyPairs ==
    (UNION {VarPolys(va) \X VarPolys(vb) : va \in VarMapsA, vb \in VarMapsB})
      \cup {<<TwoXPlusY, YPlus3Z>>}
      \cup (NoVarMapPolys \X VarPolys(<<"x">>))
      \cup (VarPolys(<<"x">>) \X NoVarMapPolys)

InitUnify ==
    /\ F = "Z"
    /\ debug = FALSE
    /\ \E x \in UnifyPairs : a = x[1] /\ b = x[2]
    /\ c = zero(F)
    /\ p = zero(F)
    /\ sums = <<>>
    /\ napp = 0
    /\ steps = 0
    /\ op = "new"
    /\ out = Idle

\* a.unify_var_map(&mut b)
UnifyVarMap ==
    /\ op = "new"
    /\ out' = IF unify_panics(a, b) THEN Panic ELSE unify_var_map(a, b)
    /\ op' = "unify_var_map"
    /\ UNCHANGED <<F, debug, a, b, c, p, sums, napp, steps>>

SpecUnify == InitUnify /\ [][UnifyVarMap]_vars

\* the exponent of variable v in term t of q, 0 for a variable q does not have
ExpOf(q, t, v) ==
    LET vm == q.var_map[1]
    IN  IF \E i \in 1..Len(vm) : vm[i] = v
        THEN exponents(q, t)[Position(vm, v, 0) + 1]
        ELSE 0

\* term t of q as (coefficient, variable-to-exponent)
MonomialOf(q, t) == <<q.coefficients[t + 1], [v \in Identifiers |-> ExpOf(q, t, v)]>>

\* the set of monomials q denotes
Denotes(q) == {MonomialOf(q, t) : t \in 0..(q.nterms - 1)}

\* the variables of y that x does not have, in y's order
Novel(x, y) ==
    LET IsNovel(v) == \A i \in 1..Len(x) : x[i] # v
    IN  SelectSeq(y, IsNovel)

\* C12: after unify_var_map(a, b) on polynomials that both carry a var_map,
\* both have the var_map made of a's variables in their order followed by b's
\* novel variables, nvars is its length, each polynomial denotes the same
\* monomials as before, a's term order is unchanged, both are canonical, and
\* for a = 2x + y, b = y + 3z the sum is 2x + 2y + 3z.
C12_UnifyVarMap ==
    (op = "unify_var_map" /\ a.var_map # <<>> /\ b.var_map # <<>>) =>
        /\ out.ok
        /\ LET vm == a.var_map[1] \o Novel(a.var_map[1], b.var_map[1])
           IN  /\ out.a.var_map = <<vm>>
               /\ out.b.var_map = <<vm>>
               /\ out.a.nvars = Len(vm)
               /\ out.b.nvars = Len(vm)
        /\ Denotes(out.a) = Denotes(a)
        /\ Denotes(out.b) = Denotes(b)
        /\ out.a.nterms = a.nterms
        /\ out.b.nterms = b.nterms
        /\ \A t \in 0..(a.nterms - 1) : MonomialOf(out.a, t) = MonomialOf(a, t)
        /\ check_consistency(out.a)
        /\ check_consistency(out.b)
        /\ (a = TwoXPlusY /\ b = YPlus3Z) =>
              /\ ~add_panics(out.a, out.b, TRUE)
              /\ add(out.a, out.b) = TwoXPlus2YPlus3Z

C12_Witness ==
    /\ op = "unify_var_map"
    /\ a = TwoXPlusY
    /\ b = YPlus3Z
    /\ out.ok
    /\ out.b.var_map = <<(<<"x", "y", "z">>)>>
    /\ out.b.nterms = 2

(***************************************************************************)
(* to_univariate_polynomial_list                                           *)
(***************************************************************************)
\* the loop finding the maximum degree in variable x
RECURSIVE MaxDeg(_, _, _, _)
MaxDeg(self, x, t, maxdeg) ==
    IF t >= self.nterms THEN maxdeg
    ELSE LET d == exponents(self, t)[x + 1]
         IN  MaxDeg(self, x, t + 1, IF d > maxdeg THEN d ELSE maxdeg)

\* the inner loop: the terms of self of degree d in x, with e[x] set to zero,
\* appended to a
RECURSIVE PowerCoefficient(_, _, _, _, _)
PowerCoefficient(self, x, d, t, acc) ==
    IF t >= self.nterms THEN acc
    ELSE IF exponents(self, t)[x + 1] = d
         THEN PowerCoefficient(self, x, d, t + 1,
                  append_monomial(acc, self.coefficients[t + 1],
                                  [exponents(self, t) EXCEPT ![x + 1] = 0]))
         ELSE PowerCoefficient(self, x, d, t + 1, acc)

\* the outer loop for d in 0..end
RECURSIVE PowerList(_, _, _, _, _)
PowerList(self, x, d, end, result) ==
    IF d >= end THEN result
    ELSE LET coeff == PowerCoefficient(self, x, d, 0, new_from(self))
         IN  PowerList(self, x, d + 1, end,
                       IF is_zero(coeff) THEN result
                       ELSE Append(result, [poly |-> coeff, e |-> d]))

\* self.exponents(t)[x] is out of range, or maxdeg.to_u32() + 1 overflows in
\* a build with overflow checks
to_univariate_panics(self, x, dbg) ==
    /\ Len(self.coefficients) # 0
    /\ \/ x >= self.nvars
       \/ dbg /\ MaxDeg(self, x, 0, 0) + 1 >= ExpLimit

\* the list of (coefficient polynomial, power of x); maxdeg.to_u32() + 1 wraps
\* in a build without overflow checks
to_univariate_polynomial_list(self, x) ==
    IF Len(self.coefficients) = 0 THEN <<>>
    ELSE PowerList(self, x, 0, (MaxDeg(self, x, 0, 0) + 1) % ExpLimit, <<>>)

\* the exponents of the operands of to_univariate_polynomial_list: the small
\* ones and E::MAX
WideExps == (0..MaxExp) \cup {ExpLimit - 1}

InitList ==
    /\ F = "Z"
    /\ debug \in BOOLEAN
    /\ a \in PolysOver(2, "Z", [1..2 -> WideExps], MaxTerms, Units("Z"))
    /\ b = zero(F)
    /\ c = zero(F)
    /\ p = zero(F)
    /\ sums = <<>>
    /\ napp = 0
    /\ steps = 0
    /\ op = "new"
    /\ out = Idle

\* a.to_univariate_polynomial_list(x)
ToUnivariatePolynomialList ==
    /\ op = "new"
    /\ \E x \in 0..a.nvars :
          out' = IF to_univariate_panics(a, x, debug) THEN [ok |-> FALSE, x |-> x]
                 ELSE [ok |-> TRUE, x |-> x, list |-> to_univariate_polynomial_list(a, x)]
    /\ op' = "to_univariate_polynomial_list"
    /\ UNCHANGED <<F, debug, a, b, c, p, sums, napp, steps>>

SpecList == InitList /\ [][ToUnivariatePolynomialList]_vars

\* the terms of q as (coefficient, row) pairs
TermsOf(q) == {<<q.coefficients[t + 1], exponents(q, t)>> : t \in 0..(q.nterms - 1)}

\* the terms of q * x^e for q free of x
TimesPower(q, x, e) == {<<m[1], [m[2] EXCEPT ![x + 1] = e]>> : m \in TermsOf(q)}

\* the list l is the decomposition of self by powers of variable x
IsPowerList(self, x, l) ==
    /\ \A i \in 1..Len(l) :
          /\ ~is_zero(l[i].poly)
          /\ check_consistency(l[i].poly)
          /\ l[i].poly.nvars = self.nvars
          /\ \A t \in 0..(l[i].poly.nterms - 1) : exponents(l[i].poly, t)[x + 1] = 0
    /\ \A i \in 1..(Len(l) - 1) : l[i].e < l[i + 1].e
    /\ TermsOf(self) = UNION {TimesPower(l[i].poly, x, l[i].e) : i \in 1..Len(l)}
    /\ (Len(l) = 0) <=> is_zero(self)

\* C13: for every well-formed polynomial a and variable index x,
\* to_univariate_polynomial_list(x) returns pairs (c_i, e_i) with strictly
\* increasing e_i, each c_i non-zero, canonical and free of x, whose sum of
\* c_i * x^e_i is a; the list is empty exactly when a is zero.
C13_UnivariateList ==
    (op = "to_univariate_polynomial_list" /\ out.x < a.nvars) =>
        /\ out.ok
        /\ IsPowerList(a, out.x, out.list)

\* the decomposition is right as long as no exponent of x is E::MAX
UnivariateListBelowMax ==
    (/\ op = "to_univariate_polynomial_list"
     /\ out.x < a.nvars
     /\ \A t \in 0..(a.nterms - 1) : exponents(a, t)[out.x + 1] < ExpLimit - 1) =>
        /\ out.ok
        /\ IsPowerList(a, out.x, out.list)

(***************************************************************************)
(* Operands that disagree on their variables                               *)
(***************************************************************************)
\* the non-zero polynomials of S, and those of one term
NonZero(S) == {q \in S : q.nterms > 0}

OneTerm(S) == {q \in S : q.nterms = 1}

\* pairs of non-zero operands with different nvars, or with the same nvars
\* and different variable maps; the second operand has one term
MismatchedPairs ==
    LET uni == PolysOver(1, "Z", UniRows(MaxExp), MaxTerms, Units("Z"))
        bi  == PolysOver(2, "Z", BiRows, MaxTerms, Units("Z"))
    IN  (NonZero(uni) \X OneTerm(bi))
          \cup (NonZero(bi) \X OneTerm(uni))
          \cup (NonZero(VarPolys(<<"x">>)) \X OneTerm(VarPolys(<<"y">>)))

InitMismatch ==
    /\ F = "Z"
    /\ debug = FALSE
    /\ \E x \in MismatchedPairs : a = x[1] /\ b = x[2]
    /\ c = zero(F)
    /\ p = zero(F)
    /\ sums = <<>>
    /\ napp = 0
    /\ steps = 0
    /\ op = "new"
    /\ out = Idle

NextMismatch == Add \/ Mul \/ QuotRem

SpecMismatch == InitMismatch /\ [][NextMismatch]_vars

\* C14: add, heap_mul and quot_rem applied to two non-zero polynomials whose
\* numbers of variables or variable maps differ abort; none returns a
\* polynomial.
C14_MismatchAborts ==
    (/\ op \in {"add", "heap_mul", "quot_rem"}
     /\ ~is_zero(a)
     /\ ~is_zero(b)
     /\ (a.nvars # b.nvars \/ a.var_map # b.var_map)) =>
        ~out.ok

\* Add::add does abort when the numbers of variables differ
AddAbortsOnNvars ==
    (op = "add" /\ ~is_zero(a) /\ ~is_zero(b) /\ a.nvars # b.nvars) => ~out.ok

(***************************************************************************)
(* Exponent overflow in the multiplications                                *)
(***************************************************************************)
\* some e1.checked_add(e2) of mul_monomial is None
mul_monomial_overflows(self, e) ==
    \E t \in 0..(self.nterms - 1) :
        \E v \in 1..ZipLen(exponents(self, t), e) :
            ExpOverflows(exponents(self, t)[v], e[v])

\* mul_monomial panics: on its debug assertions in a debug build, and on
\* "overflow in adding exponents" in every build
mul_monomial_panics(self, k, e, dbg) ==
    \/ dbg /\ self.nvars # Len(e)
    \/ dbg /\ ~(self.nterms > 0)
    \/ dbg /\ RIsZero(self.field, k)
    \/ mul_monomial_overflows(self, e)

\* every coefficient times k and every row plus e
mul_monomial(self, k, e) ==
    [ScaleCoefficients(self, k) EXCEPT !.exponents =
        [i \in 1..Len(self.exponents) |->
            LET v == ((i - 1) % self.nvars) + 1
            IN  IF v <= Len(e) THEN self.exponents[i] + e[v] ELSE self.exponents[i]]]

\* the exponents of the operands: the small ones and the two largest of E
EdgeExps == (0..MaxExp) \cup {ExpLimit - 2, ExpLimit - 1}

\* integer polynomials in one variable with exponents up to E::MAX
EdgePolys == PolysOver(1, "Z", [1..1 -> EdgeExps], MaxTerms, Units("Z"))

InitOverflow ==
    /\ F = "Z"
    /\ debug \in BOOLEAN
    /\ a \in EdgePolys
    /\ b \in EdgePolys
    /\ c = zero(F)
    /\ p = zero(F)
    /\ sums = <<>>
    /\ napp = 0
    /\ steps = 0
    /\ op = "new"
    /\ out = Idle

\* a.mul_monomial(k, e)
MulMonomial ==
    /\ op = "new"
    /\ \E k \in Units(F) \cup {RZero(F)}, e \in [1..1 -> EdgeExps] :
          out' = IF mul_monomial_panics(a, k, e, debug)
                 THEN [ok |-> FALSE, k |-> k, e |-> e]
                 ELSE [ok |-> TRUE, k |-> k, e |-> e, val |-> mul_monomial(a, k, e)]
    /\ op' = "mul_monomial"
    /\ UNCHANGED <<F, debug, a, b, c, p, sums, napp, steps>>

NextOverflow == Mul \/ MulMonomial

SpecOverflow == InitOverflow /\ [][NextOverflow]_vars

\* C15: whenever the sum of two exponents formed by mul_monomial or heap_mul
\* exceeds the maximum of the exponent type the operation aborts, so that no
\* returned polynomial holds an exponent that wrapped around.
C15_OverflowAborts ==
    /\ (op = "mul_monomial" /\ mul_monomial_overflows(a, out.e)) => ~out.ok
    /\ (op = "heap_mul" /\ ~heap_mul_panics(a, b) /\ heap_mul_overflows(a, b)) => ~out.ok

\* mul_monomial does abort on every overflow, in both builds
MulMonomialOverflowAborts ==
    (op = "mul_monomial" /\ mul_monomial_overflows(a, out.e)) => ~out.ok

\* heap_mul aborts on every overflow in a build with overflow checks
HeapMulOverflowAbortsInDebug ==
    (op = "heap_mul" /\ debug /\ ~heap_mul_panics(a, b) /\ heap_mul_overflows(a, b)) =>
        ~out.ok

(***************************************************************************)
(* Multiplication by a scalar                                              *)
(***************************************************************************)
\* for c in &mut self.coefficients { mul_assign(c, &other) }; self
mul_coeff(self, other) ==
    [self EXCEPT !.coefficients =
        [i \in 1..Len(self.coefficients) |-> RMul(self.field, self.coefficients[i], other)]]

\* a.mul_coeff(s)
MulCoeff ==
    /\ op = "new"
    /\ \E s \in Coefs(F) \cup {RZero(F)} :
          out' = [ok |-> TRUE, s |-> s, val |-> mul_coeff(a, s)]
    /\ op' = "mul_coeff"
    /\ UNCHANGED <<F, debug, a, b, c, p, sums, napp, steps>>

SpecCoeff == Init /\ [][MulCoeff]_vars

\* C16: mul_coeff(p, s) multiplies every coefficient of p by s and leaves the
\* rows unchanged; for s the zero element the result is the zero polynomial
\* (is_zero() holds, no terms stored); the result is well-formed for every s.
C16_MulCoeff ==
    op = "mul_coeff" =>
        /\ out.val.exponents = a.exponents
        /\ Len(out.val.coefficients) = Len(a.coefficients)
        /\ \A i \in 1..Len(a.coefficients) :
              out.val.coefficients[i] = RMul(F, a.coefficients[i], out.s)
        /\ RIsZero(F, out.s) =>
              /\ is_zero(out.val)
              /\ out.val.coefficients = <<>>
              /\ out.val.exponents = <<>>
        /\ check_consistency(out.val)

\* for a non-zero scalar the result is the well-formed scaled polynomial
MulCoeffNonZeroScalar ==
    (op = "mul_coeff" /\ ~RIsZero(F, out.s)) =>
        /\ out.val.exponents = a.exponents
        /\ \A i \in 1..Len(a.coefficients) :
              out.val.coefficients[i] = RMul(F, a.coefficients[i], out.s)
        /\ check_consistency(out.val)

(***************************************************************************)
(* Scalar domains                                                          *)
(* A float is modelled by an integer: on small integers every operation    *)
(* used here is exact, fused or not.  A SIMD pack is the sequence of its   *)
(* lanes, a Rational a reduced pair as in the ring "Q", a Complex a record *)
(* [re, im] over the floats.                                               *)
(***************************************************************************)
ScalarDomains == {"f64", "MultiPrecisionFloat", "f64x2", "f64x4", "Rational", "Complex"}

\* the floats of the operands
SmallFloats == {-1, 0, 1, 2}

\* the values of each scalar domain
Scalars(D) ==
    CASE D = "f64" -> SmallFloats
      [] D = "MultiPrecisionFloat" -> SmallFloats
      [] D = "f64x2" -> [1..2 -> {0, 1, 2}]
      [] D = "f64x4" -> {[i \in 1..4 |-> IF i = k THEN v ELSE 1] : k \in 1..4, v \in {0, 2}}
      [] D = "Rational" -> {QNorm(n, d) : n \in {-1, 0, 1}, d \in {1, 2}}
      [] D = "Complex" -> [re : {0, 1, 2}, im : {0, 1}]

\* Complex::new(self.re + rhs.re, self.im + rhs.im)
complex_add(x, y) == [re |-> x.re + y.re, im |-> x.im + y.im]

\* Complex::new(re*re' - im*im', re*im' + im*re')
complex_mul(x, y) ==
    [re |-> x.re * y.re - x.im * y.im, im |-> x.re * y.im + x.im * y.re]

\* x * y and x + y of domain D
ScalarMul(D, x, y) ==
    CASE D \in {"f64", "MultiPrecisionFloat"} -> x * y
      [] D \in {"f64x2", "f64x4"} -> [i \in DOMAIN x |-> x[i] * y[i]]
      [] D = "Rational" -> RMul("Q", x, y)
      [] D = "Complex" -> complex_mul(x, y)

ScalarAdd(D, x, y) ==
    CASE D \in {"f64", "MultiPrecisionFloat"} -> x + y
      [] D \in {"f64x2", "f64x4"} -> [i \in DOMAIN x |-> x[i] + y[i]]
      [] D = "Rational" -> RAdd("Q", x, y)
      [] D = "Complex" -> complex_add(x, y)

\* NumericalFloatLike::mul_add of each domain, self.mul_add(x, y)
mul_add(D, self, x, y) ==
    CASE D = "f64" -> self * x + y
      [] D = "MultiPrecisionFloat" -> self * x + y
      [] D \in {"f64x2", "f64x4"} -> [i \in DOMAIN self |-> self[i] * x[i] + y[i]]
      [] D = "Rational" -> RAdd("Q", RMul("Q", self, x), y)
      [] D = "Complex" -> complex_add(self, complex_mul(x, y))

InitScalar ==
    /\ F \in ScalarDomains
    /\ debug = FALSE
    /\ a \in Scalars(F)
    /\ b \in Scalars(F)
    /\ c \in Scalars(F)
    /\ p = zero("Z")
    /\ sums = <<>>
    /\ napp = 0
    /\ steps = 0
    /\ op = "new"
    /\ out = Idle

\* a.mul_add(b, c)
MulAdd ==
    /\ op = "new"
    /\ out' = [ok |-> TRUE, val |-> mul_add(F, a, b, c)]
    /\ op' = "mul_add"
    /\ UNCHANGED <<F, debug, a, b, c, p, sums, napp, steps>>

SpecScalar == InitScalar /\ [][MulAdd]_vars

\* C17: in every scalar domain x.mul_add(a, b) is x*a + b: with the receiver
\* in a and the two arguments in b and c, the result is a*b + c.
C17_MulAdd ==
    op = "mul_add" => out.val = ScalarAdd(F, ScalarMul(F, a, b), c)

\* mul_add is x*a + b in every domain but Complex
MulAddOutsideComplex ==
    (op = "mul_add" /\ F # "Complex") => out.val = ScalarAdd(F, ScalarMul(F, a, b), c)

(***************************************************************************)
(* Rational::sample_unit                                                   *)
(***************************************************************************)
\* the width of the random integers, i64 scaled down
RandBits == 4

\* the values rng.gen::<i64>() can return
RandomI64 == (-(2 ^ (RandBits - 1)))..(2 ^ (RandBits - 1) - 1)

\* Rational::Natural(num, den), the pair stored as given
Natural(num, den) == <<num, den>>

\* sample_unit for the two draws rng1, rng2
sample_unit(rng1, rng2) ==
    IF rng1 > rng2 THEN Natural(rng2, rng1) ELSE Natural(rng1, rng2)

InitSample ==
    /\ F = "Rational"
    /\ debug = FALSE
    /\ a \in Scalars(F)
    /\ b = QNorm(0, 1)
    /\ c = QNorm(0, 1)
    /\ p = zero("Z")
    /\ sums = <<>>
    /\ napp = 0
    /\ steps = 0
    /\ op = "new"
    /\ out = Idle

\* a.sample_unit(rng)
SampleUnit ==
    /\ op = "new"
    /\ \E rng1 \in RandomI64, rng2 \in RandomI64 :
          out' = [ok |-> TRUE, rng1 |-> rng1, rng2 |-> rng2,
                  val |-> sample_unit(rng1, rng2)]
    /\ op' = "sample_unit"
    /\ UNCHANGED <<F, debug, a, b, c, p, sums, napp, steps>>

SpecSample == InitSample /\ [][SampleUnit]_vars

\* the fraction n/d lies in [0, 1]
InUnitInterval(n, d) ==
    \/ d > 0 /\ 0 <= n /\ n <= d
    \/ d < 0 /\ d <= n /\ n <= 0

\* C18: for every pair of 64-bit values the random source can return,
\* sample_unit yields a fraction in lowest terms with non-zero denominator
\* whose value lies in [0, 1].
C18_SampleUnit ==
    op = "sample_unit" =>
        /\ out.val[2] # 0
        /\ Gcd(Abs(out.val[1]), Abs(out.val[2])) = 1
        /\ InUnitInterval(out.val[1], out.val[2])

\* for two positive draws the denominator is positive and the value is in [0, 1]
SampleUnitPositiveDraws ==
    (op = "sample_unit" /\ out.rng1 > 0 /\ out.rng2 > 0) =>
        /\ out.val[2] > 0
        /\ InUnitInterval(out.val[1], out.val[2])

(***************************************************************************)
(* Real on the SIMD packs                                                  *)
(***************************************************************************)
\* the operations of the trait Real
RealOps ==
    {"sqrt", "log", "exp", "sin", "cos", "tan", "asin", "acos", "atan2",
     "sinh", "cosh", "tanh", "asinh", "acosh", "atanh", "powf"}

\* the message of unimplemented!(..)
SimdMessage == "Hyperbolic geometric functions are not supported with SIMD"

\* faulty variant of simd_unimplemented: tanh is computed
simd_unimplemented_but_tanh(f) == f \in {"sinh", "cosh", "asinh", "acosh", "atanh"}

\* the body of operation f of simd_impl is unimplemented!(..)
simd_unimplemented(f) == f \in {"sinh", "cosh", "tanh", "asinh", "acosh", "atanh"}

\* the pack returned by the implemented operation f: the lane function of the
\* SIMD library, left uninterpreted, applied lane by lane; atan2 and powf
\* take the second pack x
simd_real(f, self, x) ==
    [i \in DOMAIN self |->
        IF f \in {"atan2", "powf"} THEN <<f, self[i], x[i]>> ELSE <<f, self[i]>>]

InitSimd ==
    /\ F \in {"f64x2", "f64x4"}
    /\ debug = FALSE
    /\ a \in Scalars(F)
    /\ b \in Scalars(F)
    /\ c = a
    /\ p = zero("Z")
    /\ sums = <<>>
    /\ napp = 0
    /\ steps = 0
    /\ op = "new"
    /\ out = Idle

\* a.f() for an operation f of Real, a.f(b) for atan2 and powf
RealOp ==
    /\ op = "new"
    /\ \E f \in RealOps :
          out' = IF simd_unimplemented(f)
                 THEN [ok |-> FALSE, f |-> f, message |-> SimdMessage]
                 ELSE [ok |-> TRUE, f |-> f, val |-> simd_real(f, a, b)]
    /\ op' = "real"
    /\ UNCHANGED <<F, debug, a, b, c, p, sums, napp, steps>>

SpecSimd == InitSimd /\ [][RealOp]_vars

\* C19: on f64x2 and f64x4 each of sinh, cosh, tanh, asinh, acosh and atanh
\* fails with a descriptive error on every input and returns no value, and
\* each of sqrt, log, exp, sin, cos, tan, asin, acos, atan2 and powf returns
\* a value.
C19_SimdHyperbolic ==
    op = "real" =>
        /\ out.f \in {"sinh", "cosh", "tanh", "asinh", "acosh", "atanh"} =>
              /\ ~out.ok
              /\ out.message # ""
              /\ "val" \notin DOMAIN out
        /\ out.f \in {"sqrt", "log", "exp", "sin", "cos", "tan", "asin", "acos",
                      "atan2", "powf"} =>
              /\ out.ok
              /\ DOMAIN out.val = DOMAIN a

C19_Witness ==
    /\ op = "real"
    /\ F = "f64x4"
    /\ out.f = "tanh"
    /\ ~out.ok

(***************************************************************************)
(* The packed representation of expression trees                           *)
(* An Atom is a record: [type |-> "Var", name, pow], [type |-> "Fn", name, *)
(* args], [type |-> "Number", n] or [type |-> "Term", args]; a Number is   *)
(* [num, den].  The buffer is a sequence of bytes.                         *)
(***************************************************************************)
NUM_ID == 1

VAR_ID == 2

FN_ID == 3

TERM_ID == 4

\* TYPE_MASK is 0b00000111: tag & TYPE_MASK
TypeOf(tag) == tag % 8

\* the number codec of the representation (RationalNumberWriter and
\* RationalNumberReader): a header byte telling whether a denominator
\* follows, then the values, one byte each for values below 255
HeaderNum == 1

HeaderNumDen == 17

\* n.write_num(dest)
write_num(n) == <<HeaderNum, n>>

\* n.write_frac(d, dest)
write_frac(n, d) == <<HeaderNumDen, n, d>>

\* source.get_frac_u64(): (numerator, denominator, rest)
get_frac_u64(source) ==
    IF source[1] = HeaderNumDen
    THEN [num |-> source[2], den |-> source[3], rest |-> SubSeq(source, 4, Len(source))]
    ELSE [num |-> source[2], den |-> 1, rest |-> SubSeq(source, 3, Len(source))]

\* tree::Number::new(num, den)
NumberNew(num, den) == [num |-> num, den |-> den]

\* the four bytes of a u32, little endian
U32LE(n) ==
    <<n % 256, (n \div 256) % 256, (n \div 65536) % 256, (n \div 16777216) % 256>>

\* source.get_u32_le(), the value only
GetU32LE(source) ==
    source[1] + 256 * source[2] + 65536 * source[3] + 16777216 * source[4]

\* faulty variant of WriteU32At: the placeholder 0 is left in the size field
KeepPlaceholder(data, size_pos, n) == data

\* Cursor::new(&mut data[size_pos..]).write_u32::<LittleEndian>(n); size_pos is
\* the 0-based offset of the size field
WriteU32At(data, size_pos, n) ==
    [i \in 1..Len(data) |->
        IF i > size_pos /\ i <= size_pos + 4 THEN U32LE(n)[i - size_pos] ELSE data[i]]

RECURSIVE linearize(_, _)
RECURSIVE LinearizeArgs(_, _, _)
\* for a in args { self.linearize(a) }
LinearizeArgs(data, args, i) ==
    IF i > Len(args) THEN data
    ELSE LinearizeArgs(linearize(data, args[i]), args, i + 1)

\* OwnedAtom::linearize: the buffer data with atom appended
linearize(data, atom) ==
    CASE atom.type = "Var" ->
            data \o <<VAR_ID>> \o write_frac(atom.name, 1)
                 \o <<NUM_ID>> \o write_frac(atom.pow.num, atom.pow.den)
      [] atom.type = "Fn" ->
            LET size_pos == Len(data) + 1
                buf_pos == size_pos + 4
                filled == LinearizeArgs(data \o <<FN_ID>> \o U32LE(0)
                                             \o write_frac(atom.name, Len(atom.args)),
                                        atom.args, 1)
            IN  WriteU32At(filled, size_pos, Len(filled) - buf_pos)
      [] atom.type = "Number" ->
            data \o <<NUM_ID>> \o write_frac(atom.n.num, atom.n.den)
      [] atom.type = "Term" ->
            LET size_pos == Len(data) + 1
                buf_pos == size_pos + 4
                filled == LinearizeArgs(data \o <<TERM_ID>> \o U32LE(0)
                                             \o write_num(Len(atom.args)),
                                        atom.args, 1)
            IN  WriteU32At(filled, size_pos, Len(filled) - buf_pos)

\* the outcome of unreachable!("Bad id")
BadId == [type |-> "unreachable"]

RECURSIVE write_to_tree(_)
RECURSIVE ReadArgs(_, _, _)
\* for _ in 0..n_args { read one atom, push it }: (args, rest), or BadId
ReadArgs(source, n_args, args) ==
    IF n_args = 0 THEN [args |-> args, rest |-> source, bad |-> FALSE]
    ELSE LET r == write_to_tree(source)
         IN  IF r.atom = BadId THEN [args |-> args, rest |-> r.rest, bad |-> TRUE]
             ELSE ReadArgs(r.rest, n_args - 1, Append(args, r.atom))

\* OwnedAtom::write_to_tree: (atom, rest of the buffer)
write_to_tree(source) ==
    LET tag == TypeOf(source[1])
        body == SubSeq(source, 2, Len(source))
    IN  CASE tag = VAR_ID ->
                LET name == get_frac_u64(body)
                    pow == get_frac_u64(SubSeq(name.rest, 2, Len(name.rest)))
                IN  [atom |-> [type |-> "Var", name |-> name.num,
                               pow |-> NumberNew(pow.num, pow.den)],
                     rest |-> pow.rest]
          [] tag = FN_ID ->
                LET head == get_frac_u64(SubSeq(body, 5, Len(body)))
                    r == ReadArgs(head.rest, head.den, <<>>)
                IN  [atom |-> IF r.bad THEN BadId
                              ELSE [type |-> "Fn", name |-> head.num, args |-> r.args],
                     rest |-> r.rest]
          [] tag = NUM_ID ->
                LET n == get_frac_u64(body)
                IN  [atom |-> [type |-> "Number", n |-> NumberNew(n.num, n.den)],
                     rest |-> n.rest]
          [] tag = TERM_ID ->
                LET head == get_frac_u64(SubSeq(body, 5, Len(body)))
                    r == ReadArgs(head.rest, head.num, <<>>)
                IN  [atom |-> IF r.bad THEN BadId ELSE [type |-> "Term", args |-> r.args],
                     rest |-> r.rest]
          [] OTHER -> [atom |-> BadId, rest |-> body]

\* OwnedAtom::from_tree(a).data
from_tree(atom) == linearize(<<>>, atom)

\* OwnedAtom { data }.to_tree()
to_tree(data) == write_to_tree(data).atom

\* the nesting depth and the number of arguments of the trees
MaxDepth == 2

MaxArgs == 2

\* x^1 and the unreduced 4/2
TreeLeaves ==
    {[type |-> "Var", name |-> 2, pow |-> NumberNew(1, 1)],
     [type |-> "Number", n |-> NumberNew(4, 2)]}

\* the argument lists made of leaves
LeafArgs == UNION {[1..n -> TreeLeaves] : n \in 0..MaxArgs}

\* the Fn and Term nodes over the argument lists S
NodesOver(S) ==
    {[type |-> "Fn", name |-> 1, args |-> args] : args \in S}
      \cup {[type |-> "Term", args |-> args] : args \in S}

\* the trees nested at most d deep: an argument list holds leaves and at most
\* one nested node, at any position
RECURSIVE Trees(_)
Trees(d) ==
    IF d = 0 THEN TreeLeaves
    ELSE LET nested == Trees(d - 1) \ TreeLeaves
         IN  TreeLeaves \cup
             NodesOver(LeafArgs \cup
                       UNION {{[l EXCEPT ![i] = x] : i \in DOMAIN l, x \in nested} :
                                 l \in LeafArgs})

InitTree ==
    /\ F = "Atom"
    /\ debug = FALSE
    /\ a \in Trees(MaxDepth)
    /\ b = <<>>
    /\ c = <<>>
    /\ p = zero("Z")
    /\ sums = <<>>
    /\ napp = 0
    /\ steps = 0
    /\ op = "new"
    /\ out = Idle

\* OwnedAtom::from_tree(&a).to_tree()
FromTreeToTree ==
    /\ op = "new"
    /\ LET data == from_tree(a)
           tree == to_tree(data)
       IN  out' = [ok |-> tree # BadId, data |-> data, tree |-> tree]
    /\ op' = "from_tree"
    /\ UNCHANGED <<F, debug, a, b, c, p, sums, napp, steps>>

SpecTree == InitTree /\ [][FromTreeToTree]_vars

\* in the atom that starts source, and in all its arguments, the size field of
\* every Fn and Term node is the number of bytes of the node after the field
RECURSIVE SizesOk(_)
RECURSIVE ArgsSizesOk(_, _)
ArgsSizesOk(source, n) ==
    \/ n = 0
    \/ /\ SizesOk(source)
       /\ ArgsSizesOk(write_to_tree(source).rest, n - 1)

SizesOk(source) ==
    LET tag == TypeOf(source[1])
        node_len == Len(source) - Len(write_to_tree(source).rest)
        head == get_frac_u64(SubSeq(source, 6, Len(source)))
    IN  tag \in {FN_ID, TERM_ID} =>
            /\ GetU32LE(SubSeq(source, 2, 5)) = node_len - 5
            /\ ArgsSizesOk(head.rest, IF tag = FN_ID THEN head.den ELSE head.num)

\* C20: for every Atom tree a built from Var, Fn, Number and Term nodes,
\* OwnedAtom::from_tree(a).to_tree() equals a, and the size field written for
\* each Fn and Term node is the number of bytes that follow it in that node.
C20_TreeRoundTrip ==
    op = "from_tree" =>
        /\ out.ok
        /\ out.tree = a
        /\ SizesOk(out.data)

\* a Fn of a Var and a Term of two arguments went through the buffer and came
\* back: a nested node in second position
C20_Witness ==
    /\ op = "from_tree"
    /\ a.type = "Fn"
    /\ Len(a.args) = 2
    /\ a.args[1].type = "Var"
    /\ a.args[2].type = "Term"
    /\ Len(a.args[2].args) = 2
    /\ out.tree = a
    /\ Len(out.data) > 5

(***************************************************************************)
(* Exact division                                                          *)
(***************************************************************************)
\* faulty variant of Div: the pair is read as (remainder, quotient)
DivSwapped(self, other, dbg) ==
    LET res == quot_rem(self, other, dbg)
    IN  IF ~res.ok THEN Panic
        ELSE IF is_zero(res.q) THEN Ok(res.r)
        ELSE Panic

\* impl Div: let (r, q) = self.quot_rem(&other); if q.is_zero() { r } else
\* { panic!("No clean division") }; the second component is the remainder
Div(self, other, dbg) ==
    LET res == quot_rem(self, other, dbg)
    IN  IF ~res.ok THEN Panic
        ELSE IF is_zero(res.r) THEN Ok(res.q)
        ELSE Panic

\* the pairs of non-zero operands of one family with at most MaxTerms + 2
\* terms together
NonZeroPairs(R) ==
    {x \in UNION {NonZero(S) \X NonZero(S) : S \in Families(R)} :
        x[1].nterms + x[2].nterms <= MaxTerms + 2}

InitExact ==
    /\ F \in {"Z", "Zp", "Q"}
    /\ debug \in BOOLEAN
    /\ \E x \in NonZeroPairs(F) : a = x[1] /\ b = x[2]
    /\ c = zero(F)
    /\ p = zero(F)
    /\ sums = <<>>
    /\ napp = 0
    /\ steps = 0
    /\ op = "new"
    /\ out = Idle

\* c = a * b, then c.quot_rem(b) and c / b
ExactDiv ==
    /\ op = "new"
    /\ ~mul_panics(a, b, debug)
    /\ c' = heap_mul(a, b)
    /\ out' = [ok |-> TRUE, qr |-> quot_rem(c', b, debug), div |-> Div(c', b, debug)]
    /\ op' = "div"
    /\ UNCHANGED <<F, debug, a, b, p, sums, napp, steps>>

SpecExact == InitExact /\ [][ExactDiv]_vars

\* C21: for non-zero a and b over the integers, GF(5) or the rationals,
\* quot_rem(a * b, b) returns (a, 0) and not the clean-division sentinel, and
\* (a * b) / b returns a without aborting
C21_ExactDivision ==
    op = "div" =>
        /\ out.qr = DivOut(a, new_from(c), "no")
        /\ out.div = Ok(a)

\* a = x + y and b = x - y over the integers: the heap division of
\* x^2 - y^2 by x - y has run
C21_Witness ==
    /\ op = "div"
    /\ F = "Z"
    /\ a = XPlusY
    /\ b = XMinusY
    /\ c.nterms = 2
    /\ out.div = Ok(XPlusY)

(***************************************************************************)
(* The result of synthetic division                                        *)
(***************************************************************************)
\* the coefficient accumulated for power pw of the one variable: that of the
\* dividend less div_i * q_t over the terms t of q above pw - deg(div) with
\* deg(div_i) + deg(q_t) = pw
RECURSIVE Accumulated(_, _, _, _, _)
Accumulated(self, div, q, pw, t) ==
    IF t >= q.nterms THEN CoefOf(self, <<pw>>)
    ELSE LET e == exponents(q, t)[1]
             rest == Accumulated(self, div, q, pw, t + 1)
         IN  IF e > pw - ldegree_max(div) /\ e <= pw
             THEN RSub(self.field, rest,
                       RMul(self.field, CoefOf(div, <<pw - e>>), q.coefficients[t + 1]))
             ELSE rest

\* every term of q stands for a power >= deg(div) whose accumulated
\* coefficient the leading coefficient of div divides exactly
QuotientTermsExact(self, div, q) ==
    \A t \in 0..(q.nterms - 1) :
        LET pw == exponents(q, t)[1] + ldegree_max(div)
        IN  RQuotRem(self.field, Accumulated(self, div, q, pw, 0), lcoeff(div))
               = <<q.coefficients[t + 1], RZero(self.field)>>

\* the outcome is a canonical pair (q, r) with q * div + r = self
IsDivisionOf(res, self, div) ==
    /\ res.ok
    /\ check_consistency(res.q)
    /\ check_consistency(res.r)
    /\ eq(add(RefMul(res.q, div), res.r), self)
    /\ QuotientTermsExact(self, div, res.q)

\* C22: for non-zero univariate a and b in one variable over a Euclidean
\* domain, synthetic_division(a, b) returns a canonical pair (q, r) with
\* q*b + r = a, also when terms were demoted to the remainder, and every
\* term of q comes from a power >= deg(b) whose accumulated coefficient
\* was exactly divisible.
C22_SyntheticDivision ==
    op = "synthetic_division" => IsDivisionOf(out, a, b)

\* the claim holds wherever the call returns, and the call returns in every
\* build without debug assertions
SyntheticDivisionWhenReturned ==
    op = "synthetic_division" =>
        /\ out.ok => IsDivisionOf(out, a, b)
        /\ ~debug => out.ok

\* the call aborts only in a debug build, on a zero quotient
SyntheticDivisionAbortsOnZeroQuotient ==
    (op = "synthetic_division" /\ ~out.ok) =>
        debug /\ is_zero(SynRun(a, b).q)

(***************************************************************************)
(* heap_mul, one loop iteration at a time                                  *)
(* While a call is in progress out holds its local state st, the rows      *)
(* popped so far and the index pairs drained so far.                       *)
(***************************************************************************)
\* the call a.heap_mul(b) seeds the heap and the map
MulBegin ==
    /\ op = "new"
    /\ ~mul_panics(a, b, debug)
    /\ out' = [ok |-> TRUE, st |-> MulInit(a, b), popped |-> <<>>, drained |-> <<>>]
    /\ op' = "heap_mul_loop"
    /\ steps' = steps + 1
    /\ UNCHANGED <<F, debug, a, b, c, p, sums, napp>>

\* one iteration of `while h.len() > 0`
MulIterate ==
    /\ op = "heap_mul_loop"
    /\ BagToSet(out.st.h) # {}
    /\ LET cur_mon == MinRow(BagToSet(out.st.h))
       IN  out' = [out EXCEPT !.st = MulStep(a, b, @),
                              !.popped = Append(@, cur_mon),
                              !.drained = @ \o out.st.cache[cur_mon]]
    /\ steps' = steps + 1
    /\ UNCHANGED <<F, debug, a, b, c, op, p, sums, napp>>

\* the loop ends on the empty heap and res is returned
MulReturn ==
    /\ op = "heap_mul_loop"
    /\ BagToSet(out.st.h) = {}
    /\ out' = Ok(out.st.res)
    /\ op' = "heap_mul"
    /\ steps' = steps + 1
    /\ UNCHANGED <<F, debug, a, b, c, p, sums, napp>>

NextMulSteps == MulBegin \/ MulIterate \/ MulReturn

SpecMulSteps == InitExact /\ [][NextMulSteps]_vars

\* the concatenation of the entries of a map from rows to sequences
RECURSIVE Flatten(_, _)
Flatten(cache, S) ==
    IF S = {} THEN <<>>
    ELSE LET m == MinRow(S)
         IN  cache[m] \o Flatten(cache, S \ {m})

\* every tuple inserted into the map so far: those drained and those held
Inserted(st, drained) == drained \o Flatten(st.cache, DOMAIN st.cache)

NoRepeats(s) == \A i, j \in 1..Len(s) : s[i] = s[j] => i = j

StrictlyIncreasing(s) ==
    \A i \in 1..(Len(s) - 1) : cmp_exponents(s[i], s[i + 1]) = -1

\* C23: during heap_mul(a, b) on non-zero operands no index pair is inserted
\* into the map twice and, once the heap is empty, every pair (i, j) with
\* i < a.nterms and j < b.nterms has been inserted; a row is in the heap if
\* and only if it is a key of the map, no row is in the heap twice, and the
\* rows popped are strictly increasing.
C23_HeapMulPairs ==
    op = "heap_mul_loop" =>
        LET st == out.st
            ins == Inserted(st, out.drained)
        IN  /\ NoRepeats(ins)
            /\ \A x \in 1..Len(ins) :
                  ins[x][1] \in 0..(a.nterms - 1) /\ ins[x][2] \in 0..(b.nterms - 1)
            /\ BagToSet(st.h) = {} =>
                  {ins[x] : x \in 1..Len(ins)}
                     = (0..(a.nterms - 1)) \X (0..(b.nterms - 1))
            /\ BagToSet(st.h) = DOMAIN st.cache
            /\ \A m \in BagToSet(st.h) : CopiesIn(m, st.h) = 1
            /\ StrictlyIncreasing(out.popped)

\* (x + y) * (x - y): four pairs were drained, and the pairs (0, 1) and
\* (1, 0) shared the row of x*y
C23_Witness ==
    /\ op = "heap_mul_loop"
    /\ F = "Z"
    /\ a = XPlusY
    /\ b = XMinusY
    /\ BagToSet(out.st.h) = {}
    /\ Len(out.drained) = 4
    /\ Len(out.popped) = 3

(***************************************************************************)
(* heap_division, one loop iteration at a time                             *)
(***************************************************************************)
\* the dividends and divisors of the step-wise division: univariate pairs
\* with a dividend of degree up to MaxExp + 3 and a divisor of degree up to
\* MaxExp + 1, and over the integers the non-zero pairs in two variables
DivisionPairs(R) ==
    {x \in NonZero(PolysOver(1, R, UniRows(MaxExp + 3), MaxTerms, Units(R)))
              \X NonZero(PolysOver(1, R, UniRows(MaxExp + 1), MaxTerms, Coefs(R))) :
        x[1].nterms + x[2].nterms <= MaxTerms + 2}
      \cup (IF R = "Z"
            THEN {x \in NonZeroPairs(R) : x[1].nvars = 2}
            ELSE {})

InitDivSteps ==
    /\ F \in {"Z", "Zp", "Q"}
    /\ debug \in BOOLEAN
    /\ \E x \in DivisionPairs(F) : a = x[1] /\ b = x[2]
    /\ c = zero(F)
    /\ p = zero(F)
    /\ sums = <<>>
    /\ napp = 0
    /\ steps = 0
    /\ op = "new"
    /\ out = Idle

\* the call a.heap_division(b) sets up q, r, the flags, the map and the heap
DivBegin ==
    /\ op = "new"
    /\ out' = [ok |-> TRUE, st |-> DivInit(a, b)]
    /\ op' = "heap_division_loop"
    /\ steps' = steps + 1
    /\ UNCHANGED <<F, debug, a, b, c, p, sums, napp>>

\* one iteration of `while !h.is_empty() || k < self.nterms`
DivIterate ==
    /\ op = "heap_division_loop"
    /\ ~DivDone(a, out.st)
    /\ out' = [out EXCEPT !.st = DivStep(a, b, @)]
    /\ steps' = steps + 1
    /\ UNCHANGED <<F, debug, a, b, c, op, p, sums, napp>>

\* the loop has ended (or returned the sentinel); q and r are reversed
DivReturn ==
    /\ op = "heap_division_loop"
    /\ DivDone(a, out.st)
    /\ out' = DivFinish(a, b, out.st, debug)
    /\ op' = "heap_division"
    /\ steps' = steps + 1
    /\ UNCHANGED <<F, debug, a, b, c, p, sums, napp>>

NextDivSteps == DivBegin \/ DivIterate \/ DivReturn

SpecDivSteps == InitDivSteps /\ [][NextDivSteps]_vars

\* the tuples the map holds, as a sequence
Held(st) == Flatten(st.cache, DOMAIN st.cache)

\* the tuples the map holds in state after and not in state before
Successors(before, after) ==
    {Held(after)[x] : x \in 1..Len(Held(after))}
        \ {Held(before)[x] : x \in 1..Len(Held(before))}

\* the state in which the k-th tuple of the drained entry is consumed
BeforeTuple(self, div, st, k) ==
    LET pull == DivPull(self, st)
    IN  DivDrain(self, div, SubSeq(st.cache[pull.m], 1, k - 1), 1,
                 CacheTake(pull.s0, pull.m))

\* P(t, before, after) for every tuple t the coming iteration drains, with
\* the states right before and right after t is consumed
ForDrained(self, div, st, P(_, _, _)) ==
    DivPull(self, st).drains =>
        \A k \in 1..Len(st.cache[DivPull(self, st).m]) :
            LET t == st.cache[DivPull(self, st).m][k]
                before == BeforeTuple(self, div, st, k)
            IN  P(t, before, DivDrain(self, div, <<t>>, 1, before))

\* the tuple subtracts q[qi] * divisor[nterms - 1 - gi] from c
Contributes(t, before, after) ==
    after.c = RSub(a.field, before.c,
                   RMul(a.field, before.q.coefficients[t[1] + 1],
                        b.coefficients[b.nterms - 1 - t[2] + 1]))

\* exactly one successor: (qi, gi + 1, true) in the quotient heap when gi + 1
\* is a divisor position, and otherwise a divisor-heap tuple
OneSuccessor(t, before, after) ==
    /\ Len(Held(after)) = Len(Held(before)) + 1
    /\ IF t[3] /\ t[2] + 1 < b.nterms
       THEN Successors(before, after) = {<<t[1], t[2] + 1, TRUE>>}
       ELSE Successors(before, after) \in
               {{<<t[1] + 1, t[2], FALSE>>}, {<<t[1], t[2] + 1, FALSE>>}}

\* (qi, gi + 1, true) alone for a quotient-heap tuple with gi + 1 a divisor
\* position, nothing for a quotient-heap tuple at the end of the divisor, and
\* for a divisor-heap tuple (qi + 1, gi, false) when q has the row qi + 1,
\* and (qi, gi + 1, false) when position gi + 1 is not in the heap and its
\* quotient index is a row of q
SuccessorsOf(t, before, after) ==
    LET qi == t[1]
        gi == t[2]
        succ == Successors(before, after)
        n == before.q.nterms
    IN  /\ Len(Held(after)) = Len(Held(before)) + Cardinality(succ)
        /\ (t[3] /\ gi + 1 < b.nterms) => succ = {<<qi, gi + 1, TRUE>>}
        /\ (t[3] /\ gi + 1 >= b.nterms) => succ = {}
        /\ ~t[3] =>
              /\ succ \subseteq {<<qi + 1, gi, FALSE>>, <<qi, gi + 1, FALSE>>}
              /\ <<qi + 1, gi, FALSE>> \in succ <=> qi + 1 < n
              /\ <<qi, gi + 1, FALSE>> \in succ <=>
                    /\ gi + 1 < b.nterms
                    /\ ~before.div_monomial_in_heap[gi + 2]
                    /\ before.index_of_div_monomial_in_quotient[gi + 2] < n

ContributesOneSuccessor(t, before, after) ==
    Contributes(t, before, after) /\ OneSuccessor(t, before, after)

ContributesSuccessorsOf(t, before, after) ==
    Contributes(t, before, after) /\ SuccessorsOf(t, before, after)

SynBegin ==
    /\ op = "new"
    /\ a.nvars = 1
    /\ a.nterms > 0 /\ Len(b.coefficients) > 0
    /\ out' = [ok |-> TRUE, done |-> FALSE,
               st |-> [dividendpos |-> a.nterms - 1, q |-> new_from(a),
                       r |-> new_from(a), pow |-> ldegree_max(a)]]
    /\ op' = "synthetic_division_loop"
    /\ steps' = steps + 1
    /\ UNCHANGED <<F, debug, a, b, c, p, sums, napp>>

\* one iteration of the outer loop: the work for power pow, then the break
\* on pow = 0 or pow = pow - 1
SynIterate ==
    /\ op = "synthetic_division_loop"
    /\ ~out.done
    /\ LET st1 == SynStep(a, b, FirstNonZero(last_exponents(a), 1), ldegree_max(b), out.st)
       IN  out' = IF out.st.pow = 0
                  THEN [out EXCEPT !.st = st1, !.done = TRUE]
                  ELSE [out EXCEPT !.st = [st1 EXCEPT !.pow = @ - 1]]
    /\ steps' = steps + 1
    /\ UNCHANGED <<F, debug, a, b, c, op, p, sums, napp>>

\* q.reverse(), r.reverse(), the debug check and the return
SynReturn ==
    /\ op = "synthetic_division_loop"
    /\ out.done
    /\ LET q == reverse(out.st.q)
           r == reverse(out.st.r)
       IN  out' = IF debug /\ DebugCheckPanics(a, b, q, r) THEN Panic
                  ELSE DivOut(q, r, "no")
    /\ op' = "synthetic_division"
    /\ steps' = steps + 1
    /\ UNCHANGED <<F, debug, a, b, c, p, sums, napp>>

\* the operands of the runs to completion
LoopPairs(R) == {x \in DivisionPairs(R) : x[1].nterms + x[2].nterms <= MaxTerms + 1}

InitLoops ==
    /\ F \in {"Z", "Zp", "Q"}
    /\ debug = FALSE
    /\ \E x \in LoopPairs(F) : a = x[1] /\ b = x[2]
    /\ c = zero(F)
    /\ p = zero(F)
    /\ sums = <<>>
    /\ napp = 0
    /\ steps = 0
    /\ op = "new"
    /\ out = Idle

NextLoops ==
    \/ MulBegin \/ MulIterate \/ MulReturn
    \/ DivBegin \/ DivIterate \/ DivReturn
    \/ SynBegin \/ SynIterate \/ SynReturn

\* the call has returned or aborted
Returned == op \in {"heap_mul", "heap_division", "synthetic_division"}

\* a call in progress takes its next step: steps counts the steps of the
\* step-wise calls, and every action of NextLoops is such a step
Progress == ~Returned /\ steps' = steps + 1

SpecLoops == InitLoops /\ [][NextLoops]_vars /\ WF_steps(Progress)

\* an iteration of heap_mul pops the least row of the heap for good; one of
\* heap_division consumes a dividend term or pops the greatest row for good;
\* one of synthetic_division lowers pow by one or ends the loop at pow = 0;
\* heap_division leaves its loop on the sentinel or on the empty heap with the
\* dividend consumed
IterationProgress ==
    /\ (op = "heap_mul_loop" /\ op' = op) =>
          /\ Len(out'.popped) = Len(out.popped) + 1
          /\ MinRow(BagToSet(out.st.h)) \notin BagToSet(out'.st.h)
    /\ (op = "heap_division_loop" /\ op' = op) =>
          \/ out'.st.failed
          \/ out'.st.k = out.st.k + 1
          \/ /\ BagToSet(out.st.h) # {}
             /\ MaxRow(BagToSet(out.st.h)) \notin BagToSet(out'.st.h)
             /\ out'.st.k = out.st.k
    /\ (op = "synthetic_division_loop" /\ op' = op) =>
          \/ out'.st.pow = out.st.pow - 1 /\ ~out'.done
          \/ out.st.pow = 0 /\ out'.done
    /\ (op = "heap_division_loop" /\ op' = "heap_division") =>
          \/ out.st.failed
          \/ BagToSet(out.st.h) = {} /\ out.st.k = a.nterms

\* C25: heap_mul, heap_division and synthetic_division terminate: every
\* call returns, each iteration of heap_mul pops one row, each iteration of
\* heap_division consumes a dividend term or pops a heap entry and the loop
\* ends on the empty heap with the dividend consumed, and the power counter
\* of synthetic_division decreases by one down to zero.
C25_LoopsTerminate ==
    /\ <>Returned
    /\ [][IterationProgress]_vars

\* a heap division that ran its loop to the empty heap with the dividend
\* consumed has returned a quotient of three terms
C25_Witness ==
    /\ op = "heap_division"
    /\ F = "Z"
    /\ out.ok
    /\ out.failed = "no"
    /\ out.q.nterms = 3

(***************************************************************************)
(* Projection and rearrangement                                            *)
(***************************************************************************)
\* Ring::pow(x, e): repeated multiplication from one (ring layer)
RECURSIVE RPow(_, _, _)
RPow(R, x, e) ==
    IF e = 0 THEN ROne(R) ELSE RMul(R, x, RPow(R, x, e - 1))

\* faulty variant of ReplaceLoop: the coefficients are not multiplied by the
\* power of v
RECURSIVE ReplaceLoopUnscaled(_, _, _, _, _)
ReplaceLoopUnscaled(self, n, v, t, res) ==
    IF t >= self.nterms THEN res
    ELSE ReplaceLoopUnscaled(self, n, v, t + 1,
             append_monomial(res, self.coefficients[t + 1],
                             [exponents(self, t) EXCEPT ![n + 1] = 0]))

\* the loop of replace over the terms t
RECURSIVE ReplaceLoop(_, _, _, _, _)
ReplaceLoop(self, n, v, t, res) ==
    IF t >= self.nterms THEN res
    ELSE LET k == RMul(self.field, self.coefficients[t + 1],
                       RPow(self.field, v, exponents(self, t)[n + 1]))
             e == [exponents(self, t) EXCEPT ![n + 1] = 0]
         IN  ReplaceLoop(self, n, v, t + 1, append_monomial(res, k, e))

replace(self, n, v) == ReplaceLoop(self, n, v, 0, new_from(self))

\* the rows over three variables of total degree at most MaxExp + 1
TriRows == {e \in Rows(3) : e[1] + e[2] + e[3] <= MaxExp + 1}

\* the ring elements substituted for a variable: zero and the sample of
\* non-zero elements
Values(R) == {RZero(R)} \cup Coefs(R)

\* polynomials in three variables over Z and GF(5)
TriPolys(R) == PolysOver(3, R, TriRows, MaxTerms, Units(R))

InitProject ==
    /\ F \in {"Z", "Zp"}
    /\ debug \in BOOLEAN
    /\ a \in TriPolys(F)
    /\ b = zero(F)
    /\ c = zero(F)
    /\ p = zero(F)
    /\ sums = <<>>
    /\ napp = 0
    /\ steps = 0
    /\ op = "new"
    /\ out = Idle

\* a.replace(n, v)
Replace ==
    /\ op = "new"
    /\ \E n \in 0..(a.nvars - 1), v \in Values(F) :
          out' = [ok |-> TRUE, val |-> replace(a, n, v), n |-> n, v |-> v]
    /\ op' = "replace"
    /\ UNCHANGED <<F, debug, a, b, c, p, sums, napp, steps>>

SpecReplace == InitProject /\ [][Replace]_vars

\* the rows of q with column n set to zero
RowsWithout(q, n) ==
    {[exponents(q, t) EXCEPT ![n + 1] = 0] : t \in 0..(q.nterms - 1)}

\* the ring sum of k_t * v^(e_t[n]) over the terms t of q from t on whose row
\* agrees with e outside column n
RECURSIVE Evaluated(_, _, _, _, _)
Evaluated(q, n, v, e, t) ==
    IF t >= q.nterms THEN RZero(q.field)
    ELSE LET rest == Evaluated(q, n, v, e, t + 1)
         IN  IF [exponents(q, t) EXCEPT ![n + 1] = 0] = e
             THEN RAdd(q.field, rest,
                       RMul(q.field, q.coefficients[t + 1],
                            RPow(q.field, v, exponents(q, t)[n + 1])))
             ELSE rest

\* res is the canonical polynomial of q with variable n evaluated at v
IsEvaluation(res, q, n, v) ==
    /\ check_consistency(res)
    /\ res.nvars = q.nvars
    /\ \A t \in 0..(res.nterms - 1) :
          /\ exponents(res, t)[n + 1] = 0
          /\ exponents(res, t) \in RowsWithout(q, n)
    /\ \A e \in RowsWithout(q, n) : CoefOf(res, e) = Evaluated(q, n, v, e, 0)

\* C26: replace(n, v) is canonical, has exponent 0 in column n in every row,
\* and the coefficient of each remaining row is the ring sum of k * v^(e[n])
\* over the input monomials that agree with it on the other columns; equal
\* monomials are merged and zero sums are dropped.
C26_Replace ==
    op = "replace" => out.ok /\ IsEvaluation(out.val, a, out.n, out.v)

\* x*y - y at x = 1 over the integers: the two monomials became equal and
\* their sum, zero, was dropped
C26_Witness ==
    /\ op = "replace"
    /\ F = "Z"
    /\ a.nterms = 2
    /\ a.coefficients = <<-1, 1>>
    /\ a.exponents = <<0, 1, 0, 1, 1, 0>>
    /\ out.n = 0
    /\ out.v = 1
    /\ is_zero(out.val)

(***************************************************************************)
(* replace_all_except                                                      *)
(* r is a sequence of pairs <<n, value>>; cache[n + 1][pw + 1] is the      *)
(* entry cache[n][pw] of the source.  tm, the HashMap from the exponent of *)
(* v to the coefficient, is a function; order is the sequence in which the *)
(* final loop meets its keys, which the HashMap leaves open.               *)
(***************************************************************************)
\* faulty variant of RaeCoef: a cached power is trusted although it is zero
RECURSIVE RaeCoefStale(_, _, _, _, _, _)
RaeCoefStale(self, t, r, i, k, cache) ==
    IF i > Len(r) THEN [c |-> k, cache |-> cache]
    ELSE LET n == r[i][1]
             pw == exponents(self, t)[n + 1]
         IN  IF pw > 0
             THEN IF pw < Len(cache[n + 1])
                  THEN RaeCoefStale(self, t, r, i + 1,
                                    RMul(self.field, k, cache[n + 1][pw + 1]), cache)
                  ELSE RaeCoefStale(self, t, r, i + 1,
                                    RMul(self.field, k, RPow(self.field, r[i][2], pw)),
                                    cache)
             ELSE RaeCoefStale(self, t, r, i + 1, k, cache)

\* `for (n, vv) in r`: the coefficient of term t times the powers of the
\* values, through the cache where it is long enough
RECURSIVE RaeCoef(_, _, _, _, _, _)
RaeCoef(self, t, r, i, k, cache) ==
    IF i > Len(r) THEN [c |-> k, cache |-> cache]
    ELSE LET n == r[i][1]
             vv == r[i][2]
             pw == exponents(self, t)[n + 1]
         IN  IF pw > 0
             THEN IF pw < Len(cache[n + 1])
                  THEN LET filled ==
                             IF RIsZero(self.field, cache[n + 1][pw + 1])
                             THEN [cache EXCEPT ![n + 1][pw + 1] = RPow(self.field, vv, pw)]
                             ELSE cache
                       IN  RaeCoef(self, t, r, i + 1,
                                   RMul(self.field, k, filled[n + 1][pw + 1]), filled)
                  ELSE RaeCoef(self, t, r, i + 1,
                               RMul(self.field, k, RPow(self.field, vv, pw)), cache)
             ELSE RaeCoef(self, t, r, i + 1, k, cache)

\* `for t in 0..self.nterms`: tm.entry(e[v]).and_modify(+= c).or_insert(c)
RECURSIVE RaeTerms(_, _, _, _, _, _)
RaeTerms(self, v, r, t, tm, cache) ==
    IF t >= self.nterms THEN [tm |-> tm, cache |-> cache]
    ELSE LET x == RaeCoef(self, t, r, 1, self.coefficients[t + 1], cache)
             key == exponents(self, t)[v + 1]
         IN  RaeTerms(self, v, r, t + 1,
                      IF key \in DOMAIN tm
                      THEN [tm EXCEPT ![key] = RAdd(self.field, @, x.c)]
                      ELSE (key :> x.c) @@ tm,
                      x.cache)

\* `for (k, c) in tm`: e[v] = k; res.append_monomial(c, &e)
RECURSIVE RaeBuild(_, _, _, _, _, _)
RaeBuild(self, v, tm, order, i, res) ==
    IF i > Len(order) THEN res
    ELSE RaeBuild(self, v, tm, order, i + 1,
                  append_monomial(res, tm[order[i]],
                                  [x \in 1..self.nvars |-> IF x = v + 1 THEN order[i] ELSE 0]))

\* the sequences that list every element of S once
Orders(S) ==
    {s \in [1..Cardinality(S) -> S] : \A i, j \in 1..Cardinality(S) : s[i] = s[j] => i = j}

\* the keys of tm that the final loop goes through
rae_keys(self, v, r, cache) == DOMAIN RaeTerms(self, v, r, 0, <<>>, cache).tm

\* the result and the cache after the call, order being the key order
replace_all_except(self, v, r, cache, order) ==
    LET x == RaeTerms(self, v, r, 0, <<>>, cache)
    IN  [res |-> RaeBuild(self, v, x.tm, order, 1, new_from(self)), cache |-> x.cache]

\* polynomials in three variables with coefficient one
MonicTriPolys(R) == PolysOver(3, R, TriRows, MaxTerms, {ROne(R)})

\* zero, minus one and a non-unit
FewValues(R) == {RZero(R), RNeg(R, ROne(R)), RAdd(R, ROne(R), ROne(R))}

InitRae ==
    /\ F \in {"Z", "Zp"}
    /\ debug = FALSE
    /\ a \in MonicTriPolys(F)
    /\ b = zero(F)
    /\ c = zero(F)
    /\ p = zero(F)
    /\ sums = <<>>
    /\ napp = 0
    /\ steps = 0
    /\ op = "new"
    /\ out = Idle

\* the sequences of pairs <<n, value>> that give every variable of N one
\* value of V, in any order
Assignments(N, V) ==
    {[i \in 1..Cardinality(N) |-> <<o[i], f[o[i]]>>] : o \in Orders(N), f \in [N -> V]}

\* a cache of one all-zero vector of length len per variable
ZeroCache(self, len) == [n \in 1..self.nvars |-> [pw \in 1..len |-> RZero(self.field)]]

\* a.replace_all_except(v, r, cache) on an all-zero cache, then once more
\* with the cache the first call left; the first call meets the keys of tm
\* in any order and the second one in the opposite order
ReplaceAllExcept ==
    /\ op = "new"
    /\ \E v \in 0..(a.nvars - 1), len \in {MaxExp, 2} :
       \E r \in Assignments({n \in 0..(a.nvars - 1) : n # v}, FewValues(F)) :
       \E o1 \in Orders(rae_keys(a, v, r, ZeroCache(a, len))) :
          LET first == replace_all_except(a, v, r, ZeroCache(a, len), o1)
              o2 == [i \in 1..Len(o1) |-> o1[Len(o1) + 1 - i]]
          IN  out' = [ok |-> TRUE, v |-> v, r |-> r,
                      val |-> first.res, cache |-> first.cache,
                      again |-> replace_all_except(a, v, r, first.cache, o2).res]
    /\ op' = "replace_all_except"
    /\ UNCHANGED <<F, debug, a, b, c, p, sums, napp, steps>>

SpecRae == InitRae /\ [][ReplaceAllExcept]_vars

\* replace(n, val) applied for every (n, val) of r from i on
RECURSIVE ReplaceEach(_, _, _)
ReplaceEach(q, r, i) ==
    IF i > Len(r) THEN q
    ELSE ReplaceEach(replace(q, r[i][1], r[i][2]), r, i + 1)

\* C27: with a value in r for every variable other than v and an all-zero
\* cache, replace_all_except(v, r, cache) returns what the successive
\* replace(n, val) over r return, every non-zero cache entry cache[n][pw]
\* is val_n^pw, and the call repeated on that cache returns the same.
C27_ReplaceAllExcept ==
    op = "replace_all_except" =>
        /\ out.val = ReplaceEach(a, out.r, 1)
        /\ \A i \in 1..Len(out.r) :
              \A pw \in 1..Len(out.cache[out.r[i][1] + 1]) :
                 LET entry == out.cache[out.r[i][1] + 1][pw]
                 IN  RIsZero(F, entry) \/ entry = RPow(F, out.r[i][2], pw - 1)
        /\ out.again = out.val

\* x*y + y + z over the integers at y = 2, z = -1 keeping x: the cache was
\* filled and the result is 2x + 1
C27_Witness ==
    /\ op = "replace_all_except"
    /\ F = "Z"
    /\ out.v = 0
    /\ Len(out.cache[2]) = 2
    /\ out.cache[2][2] = 2
    /\ out.val.nterms = 2
    /\ \E i \in 1..Len(out.r) : out.r[i] = <<1, 2>>

(***************************************************************************)
(* Leading coefficient under a variable order                              *)
(***************************************************************************)
\* the inner `for x in 0..varmap.len()` of rearrange on the row e; newe is
\* the vector kept across the monomials
RECURSIVE Permute(_, _, _, _, _)
Permute(e, varmap, inverse, x, newe) ==
    IF x >= Len(varmap) THEN newe
    ELSE Permute(e, varmap, inverse, x + 1,
                 IF ~inverse
                 THEN [newe EXCEPT ![x + 1] = e[varmap[x + 1] + 1]]
                 ELSE [newe EXCEPT ![varmap[x + 1] + 1] = e[x + 1]])

\* `for m in self.into_iter()` of rearrange
RECURSIVE RearrangeLoop(_, _, _, _, _, _)
RearrangeLoop(self, varmap, inverse, t, newe, res) ==
    IF t >= self.nterms THEN res
    ELSE LET e == Permute(exponents(self, t), varmap, inverse, 0, newe)
         IN  RearrangeLoop(self, varmap, inverse, t + 1, e,
                           append_monomial(res, self.coefficients[t + 1], e))

rearrange(self, varmap, inverse) ==
    RearrangeLoop(self, varmap, inverse, 0, ZeroRow(self.nvars), new_from(self))

\* vars.windows(2).all(|s| s[0] < s[1]); varorder is the argument vars
InOrder(varorder) == \A i \in 1..(Len(varorder) - 1) : varorder[i] < varorder[i + 1]

\* faulty variant of Compare: the variables are gone through from the last
RECURSIVE CompareBackwards(_, _, _, _, _)
CompareBackwards(e, varorder, i, highest, more) ==
    IF i > Len(varorder) THEN [skip |-> FALSE, highest |-> highest]
    ELSE LET v == varorder[Len(varorder) + 1 - i] + 1
         IN  IF more
             THEN CompareBackwards(e, varorder, i + 1, [highest EXCEPT ![v] = e[v]], TRUE)
             ELSE IF e[v] < highest[v] THEN [skip |-> TRUE, highest |-> highest]
             ELSE IF e[v] > highest[v]
             THEN CompareBackwards(e, varorder, i + 1, [highest EXCEPT ![v] = e[v]], TRUE)
             ELSE CompareBackwards(e, varorder, i + 1, highest, FALSE)

\* `for &v in vars` on the row e of one monomial: skip is the
\* `continue 'nextmon` of a smaller exponent
RECURSIVE Compare(_, _, _, _, _)
Compare(e, varorder, i, highest, more) ==
    IF i > Len(varorder) THEN [skip |-> FALSE, highest |-> highest]
    ELSE LET v == varorder[i] + 1
         IN  IF more
             THEN Compare(e, varorder, i + 1, [highest EXCEPT ![v] = e[v]], TRUE)
             ELSE IF e[v] < highest[v] THEN [skip |-> TRUE, highest |-> highest]
             ELSE IF e[v] > highest[v]
             THEN Compare(e, varorder, i + 1, [highest EXCEPT ![v] = e[v]], TRUE)
             ELSE Compare(e, varorder, i + 1, highest, FALSE)

\* `'nextmon: for m in self.into_iter()`
RECURSIVE Highest(_, _, _, _, _)
Highest(self, varorder, t, highest, highestc) ==
    IF t >= self.nterms THEN highestc
    ELSE LET x == Compare(exponents(self, t), varorder, 1, highest, FALSE)
         IN  IF x.skip THEN Highest(self, varorder, t + 1, highest, highestc)
             ELSE Highest(self, varorder, t + 1, x.highest, self.coefficients[t + 1])

lcoeff_varorder(self, varorder) ==
    IF InOrder(varorder) THEN lcoeff(self)
    ELSE Highest(self, varorder, 0, ZeroRow(self.nvars), RZero(self.field))

\* debug_assert!(!F::is_zero(highestc))
lcoeff_varorder_panics(self, varorder, dbg) ==
    dbg /\ ~InOrder(varorder) /\ RIsZero(self.field, lcoeff_varorder(self, varorder))

InitOrder ==
    /\ F \in {"Z", "Zp"}
    /\ debug \in BOOLEAN
    /\ a \in NonZero(PolysOver(3, F, TriRows, MaxTerms, Coefs(F)))
    /\ b = zero(F)
    /\ c = zero(F)
    /\ p = zero(F)
    /\ sums = <<>>
    /\ napp = 0
    /\ steps = 0
    /\ op = "new"
    /\ out = Idle

\* a.lcoeff_varorder(varorder) for a permutation varorder of the variables
LcoeffVarorder ==
    /\ op = "new"
    /\ \E varorder \in Orders(0..(a.nvars - 1)) :
          out' = IF lcoeff_varorder_panics(a, varorder, debug) THEN Panic
                 ELSE [ok |-> TRUE, val |-> lcoeff_varorder(a, varorder), varorder |-> varorder]
    /\ op' = "lcoeff_varorder"
    /\ UNCHANGED <<F, debug, a, b, c, p, sums, napp, steps>>

SpecOrder == InitOrder /\ [][LcoeffVarorder]_vars

\* row x is above row y when the variables are compared in the order varorder
RECURSIVE Above(_, _, _, _)
Above(x, y, varorder, i) ==
    IF i > Len(varorder) THEN FALSE
    ELSE LET v == varorder[i] + 1
         IN  x[v] > y[v] \/ (x[v] = y[v] /\ Above(x, y, varorder, i + 1))

\* C28: for non-zero p and a permutation varorder of its variables,
\* lcoeff_varorder(varorder) is the coefficient of the greatest monomial when
\* the variables are compared in the order varorder, varorder[0] first; it equals
\* rearrange(varorder, false).lcoeff(), and lcoeff() for the increasing varorder.
C28_LcoeffVarorder ==
    op = "lcoeff_varorder" =>
        /\ out.ok
        /\ \E t \in 0..(a.nterms - 1) :
              /\ out.val = a.coefficients[t + 1]
              /\ \A u \in 0..(a.nterms - 1) :
                    u # t => Above(exponents(a, t), exponents(a, u), out.varorder, 1)
        /\ out.val = lcoeff(rearrange(a, out.varorder, FALSE))
        /\ InOrder(out.varorder) => out.val = lcoeff(a)

\* 2*x*y - z with z compared first: the leading coefficient is that of z,
\* not the one of the last term
C28_Witness ==
    /\ op = "lcoeff_varorder"
    /\ F = "Z"
    /\ a.coefficients = <<-1, 2>>
    /\ a.exponents = <<0, 0, 1, 1, 1, 0>>
    /\ out.ok
    /\ out.varorder = <<2, 0, 1>>
    /\ out.val = -1

(***************************************************************************)
(* The dirty flag of a packed function                                     *)
(***************************************************************************)
\* const DIRTY_FLAG: u8 = 0b10000000
DIRTY_FLAG == 128

\* x & y on unsigned bytes
RECURSIVE BitAnd(_, _)
BitAnd(x, y) ==
    IF x = 0 \/ y = 0 THEN 0
    ELSE (x % 2) * (y % 2) + 2 * BitAnd(x \div 2, y \div 2)

\* !x on u8
BitNot(x) == 255 - x

\* OwnedFunction::from_name on an empty buffer
from_name(id) == <<VAR_ID>> \o write_num(id)

\* OwnedFunction::set_dirty: both branches use &=
set_dirty(data, dirty) ==
    IF dirty THEN [data EXCEPT ![1] = BitAnd(@, DIRTY_FLAG)]
    ELSE [data EXCEPT ![1] = BitAnd(@, BitNot(DIRTY_FLAG))]

\* FunctionView::is_dirty
is_dirty(data) == BitAnd(data[1], DIRTY_FLAG) # 0

\* the packed functions: the function trees linearized and a named function,
\* with the flag clear or set
PackedFunctions ==
    LET clean == {from_tree(t) : t \in {x \in Trees(MaxDepth) : x.type = "Fn"}}
                    \cup {from_name(id) : id \in 1..2}
    IN  clean \cup {[d EXCEPT ![1] = @ + DIRTY_FLAG] : d \in clean}

InitDirty ==
    /\ F = "Atom"
    /\ debug \in BOOLEAN
    /\ a \in PackedFunctions
    /\ b = <<>>
    /\ c = <<>>
    /\ p = <<>>
    /\ sums = <<>>
    /\ napp = 0
    /\ steps = 0
    /\ op = "new"
    /\ out = Idle

\* f.set_dirty(dirty) on the packed function a
SetDirty ==
    /\ op = "new"
    /\ \E dirty \in BOOLEAN :
          out' = [ok |-> TRUE, dirty |-> dirty, data |-> set_dirty(a, dirty)]
    /\ op' = "set_dirty"
    /\ UNCHANGED <<F, debug, a, b, c, p, sums, napp, steps>>

SpecDirty == InitDirty /\ [][SetDirty]_vars

\* C29: after set_dirty(true) is_dirty() is true and after set_dirty(false)
\* it is false, whatever the flag was before, and the type tag in the low
\* three bits of the first byte is unchanged.
C29_SetDirty ==
    op = "set_dirty" =>
        /\ is_dirty(out.data) = out.dirty
        /\ TypeOf(out.data[1]) = TypeOf(a[1])

\* set_dirty(false) clears the flag and keeps the rest of the first byte
SetDirtyFalseClears ==
    (op = "set_dirty" /\ ~out.dirty) =>
        /\ ~is_dirty(out.data)
        /\ TypeOf(out.data[1]) = TypeOf(a[1])
        /\ Tail(out.data) = Tail(a)

\* set_dirty(true) never sets a clear flag and always clears the type tag
SetDirtyTrueKeepsFlag ==
    (op = "set_dirty" /\ out.dirty) =>
        /\ is_dirty(out.data) = is_dirty(a)
        /\ TypeOf(out.data[1]) = 0


(***************************************************************************)
(* Addition of packed numbers                                              *)
(***************************************************************************)
\* the largest numerator and denominator of the packed numbers added
MaxNum == 4

\* utils::gcd_unsigned(a, b)
gcd_unsigned(x, y) == Gcd(x, y)

\* NumberView::get_numden: skip the tag, read the fraction
get_numden(data) ==
    LET r == get_frac_u64(Tail(data))
    IN  <<r.num, r.den>>

\* the fraction both add functions write: c = (a.0 * b.0, a.1 * b.1) divided
\* by gcd_unsigned(c.0, c.1); the u64 products of numbers up to MaxNum do not
\* wrap
AddFraction(x, y) ==
    LET prod == <<x[1] * y[1], x[2] * y[2]>>
        gcd == gcd_unsigned(prod[1], prod[2])
    IN  write_frac(prod[1] \div gcd, prod[2] \div gcd)

\* OwnedNumber::add: self.data after the call
OwnedNumberAdd(self, other) ==
    SubSeq(self, 1, 1) \o AddFraction(get_numden(self), get_numden(other))

\* NumberView::add: out.data after the call
NumberViewAdd(self, other, outdata) ==
    outdata \o <<NUM_ID>> \o AddFraction(get_numden(self), get_numden(other))

\* the packed numbers n/d and n, as linearize and the writers store them
PackedNumbers ==
    {<<NUM_ID>> \o write_frac(n, d) : n \in 0..MaxNum, d \in 1..MaxNum}
        \cup {<<NUM_ID>> \o write_num(n) : n \in 0..MaxNum}

InitNumber ==
    /\ F = "Atom"
    /\ debug \in BOOLEAN
    /\ a \in PackedNumbers
    /\ b \in PackedNumbers
    /\ c = <<>>
    /\ p = <<>>
    /\ sums = <<>>
    /\ napp = 0
    /\ steps = 0
    /\ op = "new"
    /\ out = Idle

\* let mut n = OwnedNumber::from_view(a); n.add(&b)
NumberAdd ==
    /\ op = "new"
    /\ out' = [ok |-> TRUE, data |-> OwnedNumberAdd(a, b)]
    /\ op' = "number_add"
    /\ UNCHANGED <<F, debug, a, b, c, p, sums, napp, steps>>

\* a.add(&b, &mut out) with out a new OwnedAtom
ViewAdd ==
    /\ op = "new"
    /\ out' = [ok |-> TRUE, data |-> NumberViewAdd(a, b, <<>>)]
    /\ op' = "view_add"
    /\ UNCHANGED <<F, debug, a, b, c, p, sums, napp, steps>>

NextNumber == NumberAdd \/ ViewAdd

SpecNumber == InitNumber /\ [][NextNumber]_vars

\* the packed number num/den in lowest terms
LowestTerms(num, den) ==
    LET g == Gcd(num, den)
    IN  <<NUM_ID>> \o write_frac(num \div g, den \div g)

\* C30: OwnedNumber::add and NumberView::add produce the packed number equal
\* to the sum a_num/a_den + b_num/b_den in lowest terms after the NUM_ID tag.
C30_NumberAdd ==
    op \in {"number_add", "view_add"} =>
        LET x == get_numden(a)
            y == get_numden(b)
        IN  out.data = LowestTerms(x[1] * y[2] + y[1] * x[2], x[2] * y[2])

\* what both functions produce is the product a_num*b_num / (a_den*b_den) in
\* lowest terms
NumberAddMultiplies ==
    op \in {"number_add", "view_add"} =>
        LET x == get_numden(a)
            y == get_numden(b)
        IN  out.data = LowestTerms(x[1] * y[1], x[2] * y[2])

====
